---- MODULE Spec2Model ----
(***************************************************************************)
(* Content-synthesis pipeline of the internal newsletter generator:        *)
(*   - assembleNewsletter        (src/services/freeformTopicGenerator.ts)  *)
(*   - summarizeMeetingAudio     (src/services/audioSummarizer.ts)         *)
(*   - synthesizeMeetingContent  (src/services/transcriptSynthesizer.ts)   *)
(*                                                                         *)
(* Three specifications share the module: Spec (the assembler and the      *)
(* three asynchronous dependencies it awaits), SpecAudio (one call of      *)
(* summarizeMeetingAudio) and SpecSynth (one call of                       *)
(* synthesizeMeetingContent).                                              *)
(*                                                                         *)
(* Strings are sequences of tokens.  The tokens " ", "\n" and "\n\n" are    *)
(* whitespace; every other token is a non-empty piece of text (a character,*)
(* a word, or a literal fragment of a template in the source).             *)
(* `undefined` is a reserved one-token sequence that no text uses; `none`  *)
(* is the undefined object; an optional array is UndefinedArray or Arr(..).*)
(***************************************************************************)
EXTENDS Integers, Sequences, FiniteSets, TLC

VARIABLES
  \* ---- assembleNewsletter ----
  request,             \* NewsletterGenerationRequest: audio, freeformTopicPrompt
  dependencies,        \* which optional dependencies were injected
  pc,                  \* position of assembleNewsletter
  audioCall,           \* the summarizeAudio invocation:      state and value
  synthCall,           \* the synthesizeContent invocation:   state and value
  freeformCall,        \* the generateFreeformTopic invocation: state and value
  freeformContext,     \* the context handed to generateFreeformTopic
  callLog,             \* invocations of dependencies, Date.now, now and generateId, in order
  clock,               \* Date.now()
  startedAt,           \* first clock read
  outcome,             \* what assembleNewsletter settled with
  pendingAtSettle,     \* dependency invocations still pending when it settled
  settleLog,           \* the two concurrent branches in the order they settled
  \* ---- summarizeMeetingAudio ----
  sAudio,              \* the audio descriptor passed in (none when absent)
  sOptions,            \* options.maxHighlights
  sPc,                 \* position of summarizeMeetingAudio
  sCalls,              \* dependency invocations, in order, with their arguments
  sMaxHighlights,      \* the resolved maximum
  sTranscribeCall,     \* the transcribeAudio invocation: state and value
  sHighlightsCall,     \* the generateHighlights invocation: state and value
  sOutcome,            \* what summarizeMeetingAudio settled with
  \* ---- synthesizeMeetingContent ----
  yRecap,              \* meetingRecap (none when absent)
  yTranscript,         \* transcript (none when absent)
  yOptions,            \* options.summaryMaxLength
  yHasInsights,        \* whether dependencies.extractInsights was supplied
  yPc,                 \* position of synthesizeMeetingContent
  yCalls,              \* dependency invocations, in order, with their arguments
  yInput,              \* synthesisInput and wasTruncated
  ySummary,            \* normalizedSummary
  yDecisions,          \* what extractDecisions returned
  yActionItems,        \* what extractActionItems returned
  yInsights,           \* what extractInsights returned ([] without an extractor)
  yOutcome,            \* what synthesizeMeetingContent settled with
  \* generate, the function createFreeformTopicGenerator returns
  gPrompt,             \* params.prompt (none when absent)
  gContext,            \* params.context (none when absent)
  gOptions,            \* the generator's options
  gPc,                 \* position of generate
  gDraftInput,         \* what draftCopy was called with
  gDraft,              \* what draftCopy returned, or that it threw
  gOutcome             \* what generate settled with

asmVars == <<request, dependencies, pc, audioCall, synthCall, freeformCall,
             freeformContext, callLog, clock, startedAt, outcome, pendingAtSettle,
             settleLog>>
audVars == <<sAudio, sOptions, sPc, sCalls, sMaxHighlights, sTranscribeCall, sHighlightsCall,
             sOutcome>>
synVars == <<yRecap, yTranscript, yOptions, yHasInsights, yPc, yCalls, yInput,
             ySummary, yDecisions, yActionItems, yInsights, yOutcome>>
genVars == <<gPrompt, gContext, gOptions, gPc, gDraftInput, gDraft, gOutcome>>
vars == <<asmVars, audVars, synVars, genVars>>

(***************************************************************************)
(* Bounds                                                                  *)
(***************************************************************************)
MaxClock == 2
MaxReturnedHighlights == 11

(***************************************************************************)
(* JavaScript values                                                       *)
(***************************************************************************)
undefined == <<"<undefined>">>
EmptyStr == <<>>

IsWhitespace(c) == c \in {" ", "\n", "\n\n"}

RECURSIVE TrimStart(_)
TrimStart(s) ==
  IF s = <<>> THEN <<>>
  ELSE IF IsWhitespace(Head(s)) THEN TrimStart(Tail(s)) ELSE s

RECURSIVE TrimEnd(_)
TrimEnd(s) ==
  IF s = <<>> THEN <<>>
  ELSE IF IsWhitespace(s[Len(s)]) THEN TrimEnd(SubSeq(s, 1, Len(s) - 1)) ELSE s

\* String.prototype.trim
Trim(s) == TrimEnd(TrimStart(s))

\* value?.trim(): undefined stays undefined
OptTrim(s) == IF s = undefined THEN undefined ELSE Trim(s)

\* truthiness of a string-or-undefined value
Truthy(s) == s # undefined /\ s # EmptyStr

\* a || b  and  a ?? b  on string-or-undefined values
OrElse(a, b) == IF Truthy(a) THEN a ELSE b
Coalesce(a, b) == IF a = undefined THEN b ELSE a

\* Array.prototype.slice(0, n)
Slice0(seq, n) == SubSeq(seq, 1, IF n < Len(seq) THEN n ELSE Len(seq))

Min(a, b) == IF a <= b THEN a ELSE b

\* the undefined object (an absent record)
none == [absent |-> TRUE]

\* an array-or-undefined value
UndefinedArray == [defined |-> FALSE, items |-> <<>>]
Arr(items) == [defined |-> TRUE, items |-> items]

DigitChar(d) == <<"0", "1", "2", "3", "4", "5", "6", "7", "8", "9">>[d + 1]

\* Number.prototype.toString for a natural number
RECURSIVE NumStr(_)
NumStr(n) == IF n < 10 THEN <<DigitChar(n)>> ELSE NumStr(n \div 10) \o <<DigitChar(n % 10)>>

\* Array.prototype.join
RECURSIVE Join(_, _)
Join(parts, sep) ==
  IF parts = <<>> THEN <<>>
  ELSE IF Len(parts) = 1 THEN parts[1]
  ELSE parts[1] \o sep \o Join(Tail(parts), sep)

\* Array.prototype.map
MapSeq(seq, F(_, _)) == [i \in 1..Len(seq) |-> F(seq[i], i)]

(***************************************************************************)
(* assembleNewsletter: section rendering                                   *)
(* src/services/freeformTopicGenerator.ts, second half (newsletterAssembler)*)
(***************************************************************************)
DEFAULT_FREEFORM_TONE_GUIDANCE == <<"Friendly internal tone: highlight wins, appreciate contributors, and reinforce next steps.">>
ASSEMBLER_DEFAULT_TITLE == <<"Additional Topic">>
ASSEMBLER_DEFAULT_BODY == <<"Use this space to add any announcements or highlights that didn't fit into the main sections. Update the copy as needed before sharing.">>
EM_DASH == <<" \\u2014 ">>

\* generateId ? generateId() : literal ; the k-th call of the factory
SectionId(generateId, k, literal) == IF generateId THEN <<"sec-">> \o NumStr(k) ELSE literal

HasHighlights(audioSummary) ==
  audioSummary # none /\ Len(audioSummary.highlights) > 0

HasWarnings(warnings) == warnings.defined /\ Len(warnings.items) > 0

CalloutLine(highlight, i) == <<"\\u2022 ">> \o highlight.summary

buildIntroductionSection(transcriptSynthesis, audioSummary, generateId, k) ==
  LET summaryText == Trim(transcriptSynthesis.summary)
      l1 == IF Truthy(summaryText) THEN <<summaryText>> ELSE <<>>
      l2 == IF HasHighlights(audioSummary)
              THEN <<(<<"Audio callouts:", "\n">>
                      \o Join(MapSeq(Slice0(audioSummary.highlights, 3), CalloutLine), <<"\n">>))>>
              ELSE <<>>
      lines == l1 \o l2
      introLines == IF Len(lines) = 0
                      THEN <<(<<"This week's update covers the latest progress and next steps from the team.">>)>>
                      ELSE lines
  IN [id |-> SectionId(generateId, k, <<"introduction">>),
      title |-> <<"Introduction">>,
      body |-> Join(introLines, <<"\n\n">>)]

DecisionLine(decision, i) ==
  <<"\\u2022 ">> \o decision.summary
    \o (IF Truthy(decision.rationale)
          THEN EM_DASH \o <<"Why it matters: ">> \o decision.rationale ELSE <<>>)

\* undefined when there is no decision
formatDecisions(decisions) ==
  IF Len(decisions) = 0 THEN undefined
  ELSE Join(MapSeq(decisions, DecisionLine), <<"\n">>)

\* `${minutes}:${seconds padded to two digits}`
formatTimestamp(seconds) ==
  IF seconds < 0 THEN <<"0", ":", "0", "0">>
  ELSE LET minutes == seconds \div 60
           remainingSeconds == seconds % 60
       IN NumStr(minutes) \o <<":">>
            \o (IF remainingSeconds < 10 THEN <<"0">> ELSE <<>>) \o NumStr(remainingSeconds)

InsightLine(insight, i) ==
  <<"\\u2022 ">> \o insight.summary
    \o (IF Truthy(insight.quote)
          THEN EM_DASH \o <<"Quote: \"">> \o insight.quote \o <<"\"">> ELSE <<>>)

\* startTimeSeconds is {} (not a number) or {n}
HighlightLine(highlight, i) ==
  <<"\\u2022 ">> \o highlight.summary
    \o (IF highlight.startTimeSeconds # {}
          THEN EM_DASH \o <<"Timestamp: ">>
               \o formatTimestamp(CHOOSE n \in highlight.startTimeSeconds : TRUE)
          ELSE <<>>)

formatInsightsAndHighlights(insights, audioSummary) ==
  LET lines == MapSeq(insights, InsightLine)
               \o (IF HasHighlights(audioSummary)
                     THEN MapSeq(audioSummary.highlights, HighlightLine) ELSE <<>>)
  IN IF Len(lines) = 0 THEN undefined ELSE Join(lines, <<"\n">>)

HighlightSummary(highlight, i) == highlight.summary

\* buildMainUpdatesSections as it would be if the placeholder were always appended
buildMainUpdatesSectionsAlwaysPlaceholder(transcriptSynthesis, audioSummary, generateId, k) ==
  LET decisionsBody == formatDecisions(transcriptSynthesis.decisions)
      s1 == IF Truthy(decisionsBody)
              THEN <<[id |-> SectionId(generateId, k, <<"main-updates-decisions">>),
                      title |-> <<"Key Decisions">>,
                      body |-> decisionsBody]>>
              ELSE <<>>
      insightsBody == formatInsightsAndHighlights(transcriptSynthesis.insights, audioSummary)
      s2 == IF Truthy(insightsBody)
              THEN <<[id |-> SectionId(generateId, k + Len(s1), <<"main-updates-highlights">>),
                      title |-> <<"Highlights & Insights">>,
                      body |-> insightsBody,
                      highlights |-> IF audioSummary # none
                                       THEN Arr(MapSeq(audioSummary.highlights, HighlightSummary))
                                       ELSE UndefinedArray]>>
              ELSE <<>>
      sections == s1 \o s2
  IN sections
     \o <<[id |-> SectionId(generateId, k + Len(sections), <<"main-updates-overview">>),
           title |-> <<"Main Updates">>,
           body |-> <<"No major updates were captured this cycle. Please review the action items and closing notes for next steps.">>]>>

buildMainUpdatesSections(transcriptSynthesis, audioSummary, generateId, k) ==
  LET decisionsBody == formatDecisions(transcriptSynthesis.decisions)
      s1 == IF Truthy(decisionsBody)
              THEN <<[id |-> SectionId(generateId, k, <<"main-updates-decisions">>),
                      title |-> <<"Key Decisions">>,
                      body |-> decisionsBody]>>
              ELSE <<>>
      insightsBody == formatInsightsAndHighlights(transcriptSynthesis.insights, audioSummary)
      s2 == IF Truthy(insightsBody)
              THEN <<[id |-> SectionId(generateId, k + Len(s1), <<"main-updates-highlights">>),
                      title |-> <<"Highlights & Insights">>,
                      body |-> insightsBody,
                      highlights |-> IF audioSummary # none
                                       THEN Arr(MapSeq(audioSummary.highlights, HighlightSummary))
                                       ELSE UndefinedArray]>>
              ELSE <<>>
      sections == s1 \o s2
  IN IF Len(sections) = 0
       THEN <<[id |-> SectionId(generateId, k, <<"main-updates-overview">>),
               title |-> <<"Main Updates">>,
               body |-> <<"No major updates were captured this cycle. Please review the action items and closing notes for next steps.">>]>>
       ELSE sections

NormalizeActionItem(item, i) ==
  LET summary == OptTrim(item.summary)
      owner == OptTrim(item.owner)
      dueDate == OptTrim(item.dueDate)
  IN [item EXCEPT !.summary = OrElse(summary, <<"Follow up item ">> \o NumStr(i)),
                  !.owner = IF Truthy(owner) THEN owner ELSE item.owner,
                  !.dueDate = IF Truthy(dueDate) THEN dueDate ELSE item.dueDate]

normalizeActionItems(actionItems) ==
  IF Len(actionItems) = 0 THEN <<>> ELSE MapSeq(actionItems, NormalizeActionItem)

\* new Date(isoDate).toLocaleDateString("en-US", short month, numeric day and year);
\* the raw string when the date does not parse
formatDueDate(isoDate) ==
  IF isoDate = <<"2024-05-01T00:00:00.000Z">> THEN <<"May 1, 2024">> ELSE isoDate

formatActionItemLine(item, i) ==
  LET d1 == IF Truthy(item.owner) THEN <<(<<"Owner: ">> \o item.owner)>> ELSE <<>>
      d2 == IF Truthy(item.dueDate) THEN <<(<<"Due: ">> \o formatDueDate(item.dueDate))>> ELSE <<>>
      details == d1 \o d2
      detailsSuffix == IF Len(details) > 0 THEN EM_DASH \o Join(details, <<" | ">>) ELSE <<>>
  IN <<"\\u2022 ">> \o item.summary \o detailsSuffix

buildActionItemsSection(actionItems, generateId, k) ==
  LET normalizedItems == normalizeActionItems(actionItems)
      lines == MapSeq(normalizedItems, formatActionItemLine)
  IN [id |-> SectionId(generateId, k, <<"action-items">>),
      title |-> <<"Action Items">>,
      body |-> IF Len(lines) > 0 THEN Join(lines, <<"\n">>)
               ELSE <<"No action items were captured for this update. Check in with the team to confirm next steps.">>,
      items |-> normalizedItems]

WarningNote(warning, i) == <<"Note: ">> \o warning

\* buildClosingSection as it would be if the thank-you line did not depend on
\* the lines before it
buildClosingSectionAlwaysThanks(transcriptSynthesis, actionItemCount, audioSummary, generateId, k) ==
  LET l1 == IF actionItemCount > 0
              THEN <<(<<"Please review the ">> \o NumStr(actionItemCount)
                      \o <<" action item(s) listed above and confirm ownership.">>)>>
              ELSE <<>>
      l2 == IF audioSummary # none /\ HasWarnings(audioSummary.warnings)
              THEN MapSeq(audioSummary.warnings.items, WarningNote) ELSE <<>>
      l3 == IF Truthy(transcriptSynthesis.summary)
              THEN <<(<<"Thank you for staying aligned. Reach out if any clarifications are needed before the next check-in.">>)>>
              ELSE <<>>
      lines == l1 \o l2 \o l3
      final == IF Len(lines) = 0 THEN <<(<<"Thanks for reading and keep up the great work!">>)>> ELSE lines
  IN [id |-> SectionId(generateId, k, <<"closing">>),
      title |-> <<"Closing">>,
      body |-> Join(final, <<"\n\n">>)]

buildClosingSection(transcriptSynthesis, actionItemCount, audioSummary, generateId, k) ==
  LET l1 == IF actionItemCount > 0
              THEN <<(<<"Please review the ">> \o NumStr(actionItemCount)
                      \o <<" action item(s) listed above and confirm ownership.">>)>>
              ELSE <<>>
      l2 == IF audioSummary # none /\ HasWarnings(audioSummary.warnings)
              THEN MapSeq(audioSummary.warnings.items, WarningNote) ELSE <<>>
      l3 == IF Len(l1 \o l2) = 0 /\ Truthy(transcriptSynthesis.summary)
              THEN <<(<<"Thank you for staying aligned. Reach out if any clarifications are needed before the next check-in.">>)>>
              ELSE <<>>
      lines == l1 \o l2 \o l3
      final == IF Len(lines) = 0 THEN <<(<<"Thanks for reading and keep up the great work!">>)>> ELSE lines
  IN [id |-> SectionId(generateId, k, <<"closing">>),
      title |-> <<"Closing">>,
      body |-> Join(final, <<"\n\n">>)]

\* buildFreeformSuggestion as it would be without the default title
buildFreeformSuggestionNoDefaultTitle(prompt) ==
  LET promptTopic == IF prompt = none THEN undefined ELSE OptTrim(prompt.topic)
      promptInstructions == IF prompt = none THEN undefined ELSE OptTrim(prompt.instructions)
      bodySegments == (IF Truthy(promptInstructions) THEN <<promptInstructions>> ELSE <<>>)
                      \o <<ASSEMBLER_DEFAULT_BODY>>
  IN [prompt |-> IF Truthy(promptTopic) \/ Truthy(promptInstructions)
                   THEN [topic |-> Coalesce(promptTopic, ASSEMBLER_DEFAULT_TITLE),
                         instructions |-> IF Truthy(promptInstructions)
                                            THEN promptInstructions ELSE undefined]
                   ELSE none,
      title |-> Coalesce(promptTopic, EmptyStr),
      body |-> Join(bodySegments, <<"\n\n">>),
      isPromptAligned |-> Truthy(promptTopic) \/ Truthy(promptInstructions),
      toneGuidance |-> DEFAULT_FREEFORM_TONE_GUIDANCE]

\* the assembler's own fallback for the freeform section
buildFreeformSuggestion(prompt) ==
  LET promptTopic == IF prompt = none THEN undefined ELSE OptTrim(prompt.topic)
      promptInstructions == IF prompt = none THEN undefined ELSE OptTrim(prompt.instructions)
      title == OrElse(promptTopic, ASSEMBLER_DEFAULT_TITLE)
      bodySegments == (IF Truthy(promptInstructions) THEN <<promptInstructions>> ELSE <<>>)
                      \o <<ASSEMBLER_DEFAULT_BODY>>
  IN [prompt |-> IF Truthy(promptTopic) \/ Truthy(promptInstructions)
                   THEN [topic |-> Coalesce(promptTopic, ASSEMBLER_DEFAULT_TITLE),
                         instructions |-> IF Truthy(promptInstructions)
                                            THEN promptInstructions ELSE undefined]
                   ELSE none,
      title |-> title,
      body |-> Join(bodySegments, <<"\n\n">>),
      isPromptAligned |-> Truthy(promptTopic) \/ Truthy(promptInstructions),
      toneGuidance |-> DEFAULT_FREEFORM_TONE_GUIDANCE]

\* buildStructuredNewsletter as it would be if the closing section were built
\* before the action-items section
buildStructuredNewsletterClosingFirst(req, audioSummary, transcriptSynthesis, generateId, freeformSuggestion) ==
  LET introduction == buildIntroductionSection(transcriptSynthesis, audioSummary, generateId, 1)
      mainUpdates == buildMainUpdatesSections(transcriptSynthesis, audioSummary, generateId, 2)
      closing == buildClosingSection(transcriptSynthesis,
                                     Len(normalizeActionItems(transcriptSynthesis.actionItems)),
                                     audioSummary, generateId, 2 + Len(mainUpdates))
      actionItems == buildActionItemsSection(transcriptSynthesis.actionItems, generateId,
                                             3 + Len(mainUpdates))
      freeformTopic == IF freeformSuggestion # none THEN freeformSuggestion
                       ELSE buildFreeformSuggestion(req.freeformTopicPrompt)
  IN [introduction |-> introduction,
      mainUpdates |-> mainUpdates,
      actionItems |-> actionItems,
      closing |-> closing,
      freeformTopic |-> freeformTopic]

buildStructuredNewsletter(req, audioSummary, transcriptSynthesis, generateId, freeformSuggestion) ==
  LET introduction == buildIntroductionSection(transcriptSynthesis, audioSummary, generateId, 1)
      mainUpdates == buildMainUpdatesSections(transcriptSynthesis, audioSummary, generateId, 2)
      actionItems == buildActionItemsSection(transcriptSynthesis.actionItems, generateId,
                                             2 + Len(mainUpdates))
      closing == buildClosingSection(transcriptSynthesis, Len(actionItems.items), audioSummary,
                                     generateId, 3 + Len(mainUpdates))
      freeformTopic == IF freeformSuggestion # none THEN freeformSuggestion
                       ELSE buildFreeformSuggestion(req.freeformTopicPrompt)
  IN [introduction |-> introduction,
      mainUpdates |-> mainUpdates,
      actionItems |-> actionItems,
      closing |-> closing,
      freeformTopic |-> freeformTopic]

\* collectWarnings as it would be with the synthesis warnings pushed first
collectWarningsSynthesisFirst(audioSummary, transcriptSynthesis) ==
  (IF HasWarnings(transcriptSynthesis.metadata.warnings)
     THEN transcriptSynthesis.metadata.warnings.items ELSE <<>>)
  \o (IF audioSummary # none /\ HasWarnings(audioSummary.warnings)
        THEN audioSummary.warnings.items ELSE <<>>)

collectWarnings(audioSummary, transcriptSynthesis) ==
  (IF audioSummary # none /\ HasWarnings(audioSummary.warnings)
     THEN audioSummary.warnings.items ELSE <<>>)
  \o (IF HasWarnings(transcriptSynthesis.metadata.warnings)
        THEN transcriptSynthesis.metadata.warnings.items ELSE <<>>)


(***************************************************************************)
(* assembleNewsletter: inputs and the values its dependencies produce      *)
(***************************************************************************)
Topics == {<<" ">>, <<" ", "Team Wins", " ">>}
Instructions == {undefined, <<" ">>, <<"Highlight shout-outs">>}
Prompts == {none} \cup [topic : Topics, instructions : Instructions]

MeetingAudio == [filename |-> <<"meeting.mp3">>, mimeType |-> <<"audio/mpeg">>,
                 durationSeconds |-> 1800, sizeBytes |-> 1024]

Requests == [audio : {none, MeetingAudio}, freeformTopicPrompt : Prompts]

Dependencies == [summarizeAudio : BOOLEAN, generateFreeformTopic : BOOLEAN, generateId : BOOLEAN]

Highlight1 == [id |-> <<"h1">>, summary |-> <<"Progress discussed">>, startTimeSeconds |-> {30}]
Highlight2 == [id |-> <<"h2">>, summary |-> <<"Launch date">>, startTimeSeconds |-> {}]

\* values summarizeAudio may resolve with (AudioHighlightsSummary)
AudioSummaries ==
  [transcript : {<<"audio transcript">>},
   highlights : {<<>>, <<Highlight1, Highlight2>>},
   durationSeconds : {1800},
   warnings : {UndefinedArray, Arr(<<>>),
               Arr(<<(<<"Audio truncated">>), (<<"Low audio quality">>)>>)}]

Decision1 == [id |-> <<"d1">>, summary |-> <<"Ship the new onboarding flow">>,
              rationale |-> <<"Unblocks beta launch">>, source |-> "recap"]
Insight1 == [id |-> <<"i1">>, summary |-> <<"User feedback is positive">>,
             quote |-> <<"Love the faster sign-up!">>, source |-> "both"]
ActionBlank == [id |-> <<"a1">>, summary |-> <<" ", " ">>, owner |-> EmptyStr,
                dueDate |-> <<"invalid">>]
ActionFull == [id |-> <<"a2">>, summary |-> <<"Prepare release notes">>, owner |-> <<"Jamie">>,
               dueDate |-> <<"2024-05-01T00:00:00.000Z">>]
ActionBlankOwner == [id |-> <<"a3">>, summary |-> <<"Confirm venue">>, owner |-> <<" ">>,
                     dueDate |-> undefined]

\* values synthesizeContent may resolve with (TranscriptSynthesisResult)
SynthesisResults ==
  [summary : {EmptyStr, <<"We completed the migration.">>},
   decisions : {<<>>, <<Decision1>>},
   insights : {<<>>, <<Insight1>>},
   actionItems : {<<>>, <<ActionBlank, ActionFull, ActionBlankOwner>>},
   metadata : [usedRecap : {TRUE}, usedTranscript : {TRUE},
               warnings : {UndefinedArray, Arr(<<(<<"Combined content was truncated">>)>>)}]]

SynthesisErrors == {"NO_CONTENT_PROVIDED", "SUMMARY_FAILED"}

\* values generateFreeformTopic may resolve with (FreeformTopicSuggestion)
Suggestions ==
  [prompt : {none},
   title : {EmptyStr, <<"Team Wins Spotlight">>},
   body : {EmptyStr, <<"Celebrate the progress.">>},
   toneGuidance : {undefined, <<" ", "Keep upbeat.", " ">>},
   isPromptAligned : {TRUE}]

idleCall == [state |-> "idle", value |-> none]
pendingOutcome == [status |-> "pending"]

(***************************************************************************)
(* assembleNewsletter: the call and the dependencies it awaits             *)
(***************************************************************************)
Settled(call) == call.state \in {"resolved", "rejected"}

\* what the awaited maybeSummarizeAudio promise holds: the summary, or
\* undefined when the call was skipped or rejected (the catch swallows it)
audioSummary == IF audioCall.state = "resolved" THEN audioCall.value ELSE none

transcriptSynthesis == synthCall.value

\* maybeSummarizeAudio's promise never rejects; it is settled once the call
\* it wraps (if any) is settled
AudioBranchSettled == audioCall.state \in {"skipped", "resolved", "rejected"}

\* PromiseAll as it would be if maybeSummarizeAudio did not catch: a rejected
\* summarizeAudio rejects the whole fan-in
PromiseAllAudioFatal(audioState, synthState) ==
  IF synthState = "rejected" \/ audioState = "rejected" THEN "rejected"
  ELSE IF synthState = "resolved" /\ audioState \in {"skipped", "resolved"} THEN "resolved"
  ELSE "pending"

\* PromiseAll as it would be if the audio branch were not awaited
PromiseAllSynthesisOnly(audioState, synthState) ==
  IF synthState = "rejected" THEN "rejected"
  ELSE IF synthState = "resolved" THEN "resolved"
  ELSE "pending"

\* Promise.all([maybeSummarizeAudio(..), synthesizeContent(..)])
PromiseAll(audioState, synthState) ==
  IF synthState = "rejected" THEN "rejected"
  ELSE IF synthState = "resolved" /\ audioState \in {"skipped", "resolved", "rejected"}
    THEN "resolved"
  ELSE "pending"

\* the invocations of the three injected services, in order
DependencyCalls ==
  SelectSeq(callLog, LAMBDA n : n \in {"summarizeAudio", "synthesizeContent",
                                       "generateFreeformTopic"})

PendingCalls ==
  {n \in {"summarizeAudio", "synthesizeContent", "generateFreeformTopic"} :
     \/ n = "summarizeAudio" /\ audioCall.state = "pending"
     \/ n = "synthesizeContent" /\ synthCall.state = "pending"
     \/ n = "generateFreeformTopic" /\ freeformCall.state = "pending"}

\* Response as it would be if processingTimeMs were the end timestamp itself
ResponseAbsoluteTime(freeformSuggestion) ==
  LET structured == buildStructuredNewsletter(request, audioSummary, transcriptSynthesis,
                                              dependencies.generateId, freeformSuggestion)
      warnings == collectWarnings(audioSummary, transcriptSynthesis)
  IN [sections |-> structured,
      metadata |-> [createdAt |-> clock,
                    processingTimeMs |-> clock,
                    audioSummaryIncluded |-> audioSummary # none],
      warnings |-> IF Len(warnings) > 0 THEN Arr(warnings) ELSE UndefinedArray]

\* lines 330-350: render, stamp, collect warnings, return
Response(freeformSuggestion) ==
  LET structured == buildStructuredNewsletter(request, audioSummary, transcriptSynthesis,
                                              dependencies.generateId, freeformSuggestion)
      warnings == collectWarnings(audioSummary, transcriptSynthesis)
  IN [sections |-> structured,
      metadata |-> [createdAt |-> clock,
                    processingTimeMs |-> clock - startedAt,
                    audioSummaryIncluded |-> audioSummary # none],
      warnings |-> IF Len(warnings) > 0 THEN Arr(warnings) ELSE UndefinedArray]

\* lines 330-339: the calls made while rendering and stamping a response: the
\* id factory once per section that takes an id, then now(), then Date.now()
RenderCalls(response) ==
  [i \in 1..(IF dependencies.generateId THEN 3 + Len(response.sections.mainUpdates) ELSE 0)
     |-> "generateId"]
  \o <<"now", "Date.now">>

\* Start as it would be if maybeSummarizeAudio did not test params.audio
StartSummarizesWithoutAudio ==
  /\ pc = "start"
  /\ startedAt' = clock
  /\ LET runAudio == dependencies.summarizeAudio
     IN /\ audioCall' = IF runAudio THEN [state |-> "pending", value |-> none]
                        ELSE [state |-> "skipped", value |-> none]
        /\ callLog' = <<"Date.now">> \o (IF runAudio THEN <<"summarizeAudio">> ELSE <<>>)
                         \o <<"synthesizeContent">>
  /\ synthCall' = [state |-> "pending", value |-> none]
  /\ pc' = "awaitAll"
  /\ UNCHANGED <<settleLog, request, dependencies, freeformCall, freeformContext, clock, outcome,
                 pendingAtSettle>>

\* lines 310-322: read the clock, start both branches
Start ==
  /\ pc = "start"
  /\ startedAt' = clock
  /\ LET runAudio == dependencies.summarizeAudio /\ request.audio # none
     IN /\ audioCall' = IF runAudio THEN [state |-> "pending", value |-> none]
                        ELSE [state |-> "skipped", value |-> none]
        /\ callLog' = <<"Date.now">> \o (IF runAudio THEN <<"summarizeAudio">> ELSE <<>>)
                         \o <<"synthesizeContent">>
  /\ synthCall' = [state |-> "pending", value |-> none]
  /\ pc' = "awaitAll"
  /\ UNCHANGED <<settleLog, request, dependencies, freeformCall, freeformContext, clock, outcome,
                 pendingAtSettle>>

SummarizeAudioResolves ==
  /\ audioCall.state = "pending"
  /\ \E v \in AudioSummaries : audioCall' = [state |-> "resolved", value |-> v]
  /\ settleLog' = Append(settleLog, "summarizeAudio")
  /\ UNCHANGED <<request, dependencies, pc, synthCall, freeformCall, freeformContext, callLog,
                 clock, startedAt, outcome, pendingAtSettle>>

SummarizeAudioRejects ==
  /\ audioCall.state = "pending"
  /\ audioCall' = [state |-> "rejected", value |-> none]
  /\ settleLog' = Append(settleLog, "summarizeAudio")
  /\ UNCHANGED <<request, dependencies, pc, synthCall, freeformCall, freeformContext, callLog,
                 clock, startedAt, outcome, pendingAtSettle>>

SynthesizeContentResolves ==
  /\ synthCall.state = "pending"
  /\ \E v \in SynthesisResults : synthCall' = [state |-> "resolved", value |-> v]
  /\ settleLog' = Append(settleLog, "synthesizeContent")
  /\ UNCHANGED <<request, dependencies, pc, audioCall, freeformCall, freeformContext, callLog,
                 clock, startedAt, outcome, pendingAtSettle>>

SynthesizeContentRejects ==
  /\ synthCall.state = "pending"
  /\ \E code \in SynthesisErrors : synthCall' = [state |-> "rejected", value |-> [code |-> code]]
  /\ settleLog' = Append(settleLog, "synthesizeContent")
  /\ UNCHANGED <<request, dependencies, pc, audioCall, freeformCall, freeformContext, callLog,
                 clock, startedAt, outcome, pendingAtSettle>>

\* PromiseAllRejects as it would be if the synthesis error were caught like
\* the audio error: the call resolves with an empty response
PromiseAllRejectsSwallowed ==
  /\ pc = "awaitAll"
  /\ PromiseAll(audioCall.state, synthCall.state) = "rejected"
  /\ pc' = "settled"
  /\ outcome' = [status |-> "resolved", response |-> none]
  /\ pendingAtSettle' = PendingCalls
  /\ UNCHANGED <<settleLog, request, dependencies, audioCall, synthCall, freeformCall, freeformContext,
                 callLog, clock, startedAt>>

\* the await of Promise.all throws: assembleNewsletter rejects with the
\* synthesis error
PromiseAllRejects ==
  /\ pc = "awaitAll"
  /\ PromiseAll(audioCall.state, synthCall.state) = "rejected"
  /\ pc' = "settled"
  /\ outcome' = [status |-> "rejected", error |-> synthCall.value]
  /\ pendingAtSettle' = PendingCalls
  /\ UNCHANGED <<settleLog, request, dependencies, audioCall, synthCall, freeformCall, freeformContext,
                 callLog, clock, startedAt>>

\* lines 324-328 and 735-753: both branches are in; call the generator when
\* one was injected
InvokeFreeformTopic ==
  /\ pc = "awaitAll"
  /\ PromiseAll(audioCall.state, synthCall.state) = "resolved"
  /\ dependencies.generateFreeformTopic
  /\ freeformCall' = [state |-> "pending", value |-> none]
  /\ freeformContext' = [prompt |-> request.freeformTopicPrompt,
                         summary |-> transcriptSynthesis.summary,
                         decisions |-> transcriptSynthesis.decisions,
                         insights |-> transcriptSynthesis.insights,
                         actionItems |-> transcriptSynthesis.actionItems,
                         audioHighlights |-> IF audioSummary = none THEN UndefinedArray
                                             ELSE Arr(audioSummary.highlights)]
  /\ callLog' = Append(callLog, "generateFreeformTopic")
  /\ pc' = "awaitFreeform"
  /\ UNCHANGED <<settleLog, request, dependencies, audioCall, synthCall, clock, startedAt, outcome,
                 pendingAtSettle>>

\* lines 739-741 then 330-350: no generator, the assembler's fallback is used
FinishWithoutGenerator ==
  /\ pc = "awaitAll"
  /\ PromiseAll(audioCall.state, synthCall.state) = "resolved"
  /\ ~dependencies.generateFreeformTopic
  /\ pc' = "settled"
  /\ outcome' = [status |-> "resolved", response |-> Response(none)]
  /\ callLog' = callLog \o RenderCalls(Response(none))
  /\ pendingAtSettle' = PendingCalls
  /\ UNCHANGED <<settleLog, request, dependencies, audioCall, synthCall, freeformCall, freeformContext,
                 clock, startedAt>>

GenerateFreeformTopicResolves ==
  /\ freeformCall.state = "pending"
  /\ \E v \in Suggestions : freeformCall' = [state |-> "resolved", value |-> v]
  /\ UNCHANGED <<settleLog, request, dependencies, pc, audioCall, synthCall, freeformContext, callLog,
                 clock, startedAt, outcome, pendingAtSettle>>

GenerateFreeformTopicRejects ==
  /\ freeformCall.state = "pending"
  /\ freeformCall' = [state |-> "rejected", value |-> none]
  /\ UNCHANGED <<settleLog, request, dependencies, pc, audioCall, synthCall, freeformContext, callLog,
                 clock, startedAt, outcome, pendingAtSettle>>

\* lines 755-762: the suggestion with its tone defaulted, or undefined when
\* the generator threw
freeformSuggestion ==
  IF freeformCall.state = "resolved"
    THEN [freeformCall.value EXCEPT
            !.toneGuidance = OrElse(OptTrim(freeformCall.value.toneGuidance),
                                    DEFAULT_FREEFORM_TONE_GUIDANCE)]
    ELSE none

\* lines 755-762 then 330-350
FinishWithGenerator ==
  /\ pc = "awaitFreeform"
  /\ Settled(freeformCall)
  /\ pc' = "settled"
  /\ outcome' = [status |-> "resolved", response |-> Response(freeformSuggestion)]
  /\ callLog' = callLog \o RenderCalls(Response(freeformSuggestion))
  /\ pendingAtSettle' = PendingCalls
  /\ UNCHANGED <<settleLog, request, dependencies, audioCall, synthCall, freeformCall, freeformContext,
                 clock, startedAt>>

\* time passes before the call and while it is waiting for a dependency
Tick ==
  /\ pc \in {"start", "awaitAll", "awaitFreeform"}
  /\ clock < MaxClock
  /\ clock' = clock + 1
  /\ UNCHANGED <<settleLog, request, dependencies, pc, audioCall, synthCall, freeformCall, freeformContext,
                 callLog, startedAt, outcome, pendingAtSettle>>

audIdle ==
  /\ sAudio = none /\ sOptions = none /\ sPc = "idle" /\ sCalls = <<>>
  /\ sMaxHighlights = 0 /\ sTranscribeCall = idleCall /\ sHighlightsCall = idleCall
  /\ sOutcome = pendingOutcome

synIdle ==
  /\ yRecap = none /\ yTranscript = none /\ yOptions = none /\ yHasInsights = FALSE
  /\ yPc = "idle" /\ yCalls = <<>> /\ yInput = none /\ ySummary = undefined
  /\ yDecisions = UndefinedArray /\ yActionItems = UndefinedArray /\ yInsights = UndefinedArray /\ yOutcome = pendingOutcome

genIdle ==
  /\ gPrompt = none /\ gContext = none /\ gOptions = none /\ gPc = "idle"
  /\ gDraftInput = none /\ gDraft = none /\ gOutcome = pendingOutcome

asmIdle ==
  /\ request = none /\ dependencies = none /\ pc = "idle"
  /\ audioCall = idleCall /\ synthCall = idleCall /\ freeformCall = idleCall
  /\ freeformContext = none /\ callLog = <<>> /\ clock = 0 /\ startedAt = 0
  /\ outcome = pendingOutcome /\ pendingAtSettle = {} /\ settleLog = <<>>

Init ==
  /\ request \in Requests
  /\ dependencies \in Dependencies
  /\ pc = "start"
  /\ audioCall = idleCall /\ synthCall = idleCall /\ freeformCall = idleCall
  /\ freeformContext = none
  /\ callLog = <<>>
  /\ clock = 0 /\ startedAt = 0
  /\ outcome = pendingOutcome
  /\ pendingAtSettle = {}
  /\ settleLog = <<>>
  /\ audIdle /\ synIdle /\ genIdle

Next ==
  \/ (Start /\ UNCHANGED <<audVars, synVars, genVars>>)
  \/ (SummarizeAudioResolves /\ UNCHANGED <<audVars, synVars, genVars>>)
  \/ (SummarizeAudioRejects /\ UNCHANGED <<audVars, synVars, genVars>>)
  \/ (SynthesizeContentResolves /\ UNCHANGED <<audVars, synVars, genVars>>)
  \/ (SynthesizeContentRejects /\ UNCHANGED <<audVars, synVars, genVars>>)
  \/ (PromiseAllRejects /\ UNCHANGED <<audVars, synVars, genVars>>)
  \/ (InvokeFreeformTopic /\ UNCHANGED <<audVars, synVars, genVars>>)
  \/ (FinishWithoutGenerator /\ UNCHANGED <<audVars, synVars, genVars>>)
  \/ (GenerateFreeformTopicResolves /\ UNCHANGED <<audVars, synVars, genVars>>)
  \/ (GenerateFreeformTopicRejects /\ UNCHANGED <<audVars, synVars, genVars>>)
  \/ (FinishWithGenerator /\ UNCHANGED <<audVars, synVars, genVars>>)
  \/ (Tick /\ UNCHANGED <<audVars, synVars, genVars>>)

Spec == Init /\ [][Next]_vars

(***************************************************************************)
(* summarizeMeetingAudio  (src/services/audioSummarizer.ts, lines 179-354) *)
(*                                                                         *)
(* A JavaScript number that need not be an integer is a record: absent     *)
(* (undefined), NaN, +/-Infinity, or a finite value counted in tenths.     *)
(***************************************************************************)
MAX_AUDIO_DURATION_SECONDS == 60 * 60
MAX_AUDIO_FILE_SIZE_BYTES == 200 * 1024 * 1024
DEFAULT_MAX_HIGHLIGHTS == 5
MAX_HIGHLIGHTS_LIMIT == 10

Absent == [kind |-> "absent", tenths |-> 0]
NaN == [kind |-> "nan", tenths |-> 0]
PosInfinity == [kind |-> "inf", tenths |-> 1]
NegInfinity == [kind |-> "inf", tenths |-> -1]
Num(tenths) == [kind |-> "num", tenths |-> tenths]

\* !value : undefined, NaN and 0 are falsy
Falsy(v) == v.kind \in {"absent", "nan"} \/ (v.kind = "num" /\ v.tenths = 0)
\* value <= 0
NonPositive(v) == v.kind \in {"num", "inf"} /\ v.tenths <= 0
\* Number.isFinite
IsFinite(v) == v.kind = "num"
\* Math.round of a finite value: halves round up
MathRound(v) == (v.tenths + 5) \div 10

\* normalizeMaxHighlights without the ceiling
normalizeMaxHighlightsUncapped(value) ==
  IF Falsy(value) \/ NonPositive(value) \/ ~IsFinite(value) THEN DEFAULT_MAX_HIGHLIGHTS
  ELSE LET rounded == MathRound(value)
       IN IF rounded <= 0 THEN DEFAULT_MAX_HIGHLIGHTS ELSE rounded

normalizeMaxHighlights(value) ==
  IF Falsy(value) \/ NonPositive(value) \/ ~IsFinite(value) THEN DEFAULT_MAX_HIGHLIGHTS
  ELSE LET rounded == MathRound(value)
       IN IF rounded <= 0 THEN DEFAULT_MAX_HIGHLIGHTS
          ELSE Min(rounded, MAX_HIGHLIGHTS_LIMIT)

\* validateAudio with the duration limit made exclusive (>= instead of >)
validateAudioExclusiveLimit(audio) ==
  IF audio = none THEN "AUDIO_NOT_PROVIDED"
  ELSE IF audio.durationSeconds <= 0 THEN "INVALID_AUDIO_METADATA"
  ELSE IF audio.durationSeconds >= MAX_AUDIO_DURATION_SECONDS THEN "AUDIO_LIMIT_EXCEEDED"
  ELSE IF audio.sizeBytes > MAX_AUDIO_FILE_SIZE_BYTES THEN "AUDIO_LIMIT_EXCEEDED"
  ELSE "ok"

\* lines 249-278: the guard clauses, in order; "ok" when none throws
validateAudio(audio) ==
  IF audio = none THEN "AUDIO_NOT_PROVIDED"
  ELSE IF audio.durationSeconds <= 0 THEN "INVALID_AUDIO_METADATA"
  ELSE IF audio.durationSeconds > MAX_AUDIO_DURATION_SECONDS THEN "AUDIO_LIMIT_EXCEEDED"
  ELSE IF audio.sizeBytes > MAX_AUDIO_FILE_SIZE_BYTES THEN "AUDIO_LIMIT_EXCEEDED"
  ELSE "ok"

\* the transcript as it would be if it were not trimmed
normalizeTranscriptUntrimmed(transcript) == transcript

\* line 294: transcript?.trim()
normalizeTranscript(transcript) == OptTrim(transcript)

TruncationWarning(returned, maximum) ==
  <<"Returned highlight count (">> \o NumStr(returned)
    \o <<") exceeded the configured maximum (">> \o NumStr(maximum)
    \o <<"). Results were truncated.">>

\* limitHighlights keeping the last `maxHighlights` items instead of the first
limitHighlightsTail(highlights, maxHighlights) ==
  LET normalizedHighlights == IF highlights.defined THEN highlights.items ELSE <<>>
      n == Len(normalizedHighlights)
  IN IF n > maxHighlights
       THEN [highlights |-> SubSeq(normalizedHighlights, n - maxHighlights + 1, n),
             warnings |-> Arr(<<TruncationWarning(n, maxHighlights)>>)]
       ELSE [highlights |-> normalizedHighlights, warnings |-> UndefinedArray]

\* lines 319-328 and 339: Array.isArray guard, slice(0, maxHighlights), the
\* warning; warnings is undefined when nothing was cut
limitHighlights(highlights, maxHighlights) ==
  LET normalizedHighlights == IF highlights.defined THEN highlights.items ELSE <<>>
  IN IF Len(normalizedHighlights) > maxHighlights
       THEN [highlights |-> Slice0(normalizedHighlights, maxHighlights),
             warnings |-> Arr(<<TruncationWarning(Len(normalizedHighlights), maxHighlights)>>)]
       ELSE [highlights |-> normalizedHighlights, warnings |-> UndefinedArray]

AudioDurations == {-1, 0, 1, MAX_AUDIO_DURATION_SECONDS, MAX_AUDIO_DURATION_SECONDS + 1}
AudioSizes == {1024, MAX_AUDIO_FILE_SIZE_BYTES, MAX_AUDIO_FILE_SIZE_BYTES + 1}
AudioUploads ==
  {none} \cup [filename : {<<"meeting.mp3">>}, mimeType : {<<"audio/mpeg">>},
               durationSeconds : AudioDurations, sizeBytes : AudioSizes]

MaxHighlightsOptions ==
  {Absent, NaN, PosInfinity, NegInfinity}
    \cup {Num(t) : t \in {-10, 0, 4, 5, 20, 24, 25, 100, 104, 120}}

\* what transcribeAudio may return
Transcripts == {undefined, EmptyStr, <<" ", "\n">>, <<" ", "Key updates from the meeting.", " ">>}

\* what generateHighlights may return: n distinct highlights, or a non-array
HighlightList(n) == [i \in 1..n |-> [id |-> <<"h">> \o NumStr(i), summary |-> <<"Highlight">>]]
HighlightLists == {UndefinedArray} \cup {Arr(HighlightList(n)) : n \in 0..MaxReturnedHighlights}

AudioError(code) == [status |-> "rejected", error |-> [code |-> code]]

\* lines 249-284: validate, resolve the maximum, call transcribeAudio
SummarizeMeetingAudio ==
  /\ sPc = "start"
  /\ IF validateAudio(sAudio) # "ok"
       THEN /\ sOutcome' = AudioError(validateAudio(sAudio))
            /\ sPc' = "settled"
            /\ UNCHANGED <<sMaxHighlights, sCalls, sTranscribeCall>>
       ELSE /\ sMaxHighlights' = normalizeMaxHighlights(sOptions)
            /\ sCalls' = <<[fn |-> "transcribeAudio", audio |-> sAudio]>>
            /\ sTranscribeCall' = [state |-> "pending", value |-> none]
            /\ sPc' = "transcribing"
            /\ UNCHANGED sOutcome
  /\ UNCHANGED <<sAudio, sOptions, sHighlightsCall>>

\* lines 285-292: transcribeAudio threw
TranscribeAudioThrows ==
  /\ sPc = "transcribing"
  /\ sTranscribeCall' = [state |-> "rejected", value |-> none]
  /\ sOutcome' = AudioError("TRANSCRIPTION_FAILED")
  /\ sPc' = "settled"
  /\ UNCHANGED <<sAudio, sOptions, sCalls, sMaxHighlights, sHighlightsCall>>

\* lines 294-309: trim the transcript; empty rejects, otherwise call
\* generateHighlights
TranscribeAudioResolves ==
  /\ sPc = "transcribing"
  /\ \E transcript \in Transcripts :
       LET normalizedTranscript == normalizeTranscript(transcript)
       IN /\ sTranscribeCall' = [state |-> "resolved", value |-> transcript]
          /\ IF ~Truthy(normalizedTranscript)
               THEN /\ sOutcome' = AudioError("EMPTY_TRANSCRIPT")
                    /\ sPc' = "settled"
                    /\ UNCHANGED <<sCalls, sHighlightsCall>>
               ELSE /\ sCalls' = Append(sCalls, [fn |-> "generateHighlights",
                                                 transcript |-> normalizedTranscript,
                                                 durationSeconds |-> sAudio.durationSeconds,
                                                 maxHighlights |-> sMaxHighlights])
                    /\ sHighlightsCall' = [state |-> "pending", value |-> none]
                    /\ sPc' = "highlighting"
                    /\ UNCHANGED sOutcome
  /\ UNCHANGED <<sAudio, sOptions, sMaxHighlights>>

\* lines 310-317: generateHighlights threw
GenerateHighlightsThrows ==
  /\ sPc = "highlighting"
  /\ sHighlightsCall' = [state |-> "rejected", value |-> none]
  /\ sOutcome' = AudioError("HIGHLIGHT_GENERATION_FAILED")
  /\ sPc' = "settled"
  /\ UNCHANGED <<sAudio, sOptions, sCalls, sMaxHighlights, sTranscribeCall>>

\* lines 319-340: cut to the maximum and return the summary
GenerateHighlightsResolves ==
  /\ sPc = "highlighting"
  /\ \E highlights \in HighlightLists :
       LET limited == limitHighlights(highlights, sMaxHighlights)
       IN /\ sHighlightsCall' = [state |-> "resolved", value |-> highlights]
          /\ sOutcome' = [status |-> "resolved",
                          summary |-> [transcript |-> sCalls[2].transcript,
                                       highlights |-> limited.highlights,
                                       durationSeconds |-> sAudio.durationSeconds,
                                       source |-> [filename |-> sAudio.filename,
                                                   mimeType |-> sAudio.mimeType,
                                                   sizeBytes |-> sAudio.sizeBytes],
                                       warnings |-> limited.warnings]]
  /\ sPc' = "settled"
  /\ UNCHANGED <<sAudio, sOptions, sCalls, sMaxHighlights, sTranscribeCall>>

InitAudio ==
  /\ sAudio \in AudioUploads
  /\ sOptions \in MaxHighlightsOptions
  /\ sPc = "start"
  /\ sCalls = <<>>
  /\ sMaxHighlights = 0
  /\ sTranscribeCall = idleCall /\ sHighlightsCall = idleCall
  /\ sOutcome = pendingOutcome
  /\ asmIdle /\ synIdle /\ genIdle

NextAudio ==
  \/ (SummarizeMeetingAudio /\ UNCHANGED <<asmVars, synVars, genVars>>)
  \/ (TranscribeAudioThrows /\ UNCHANGED <<asmVars, synVars, genVars>>)
  \/ (TranscribeAudioResolves /\ UNCHANGED <<asmVars, synVars, genVars>>)
  \/ (GenerateHighlightsThrows /\ UNCHANGED <<asmVars, synVars, genVars>>)
  \/ (GenerateHighlightsResolves /\ UNCHANGED <<asmVars, synVars, genVars>>)

SpecAudio == InitAudio /\ [][NextAudio]_vars

(***************************************************************************)
(* synthesizeMeetingContent                                                *)
(* (src/services/transcriptSynthesizer.ts, lines 297-664)                  *)
(* Recap and transcript texts are sequences of single characters, so Len   *)
(* is the length in characters.                                            *)
(***************************************************************************)
MAX_COMBINED_TEXT_LENGTH == 20000
DEFAULT_SUMMARY_MAX_LENGTH == 1000

\* the guard as it would be with || in place of &&
NoContentProvidedEither(recapText, transcriptText) ==
  ~Truthy(recapText) \/ ~Truthy(transcriptText)

\* line 376: !recapText && !transcriptText
NoContentProvided(recapText, transcriptText) ==
  ~Truthy(recapText) /\ ~Truthy(transcriptText)

\* meetingRecap?.text?.trim() ?? ""
InputText(input) ==
  IF input = none THEN EmptyStr ELSE Coalesce(OptTrim(input.text), EmptyStr)

\* [recapText, transcriptText].filter(Boolean).join("\n\n")
CombineTexts(recapText, transcriptText) ==
  Join((IF Truthy(recapText) THEN <<recapText>> ELSE <<>>)
         \o (IF Truthy(transcriptText) THEN <<transcriptText>> ELSE <<>>),
       <<"\n", "\n">>)

\* truncateCombinedText as it would be with < in place of <=
truncateCombinedTextExclusive(value) ==
  IF value = EmptyStr THEN [truncatedText |-> EmptyStr, wasTruncated |-> FALSE]
  ELSE IF Len(value) < MAX_COMBINED_TEXT_LENGTH
    THEN [truncatedText |-> value, wasTruncated |-> FALSE]
  ELSE [truncatedText |-> SubSeq(value, 1, MAX_COMBINED_TEXT_LENGTH), wasTruncated |-> TRUE]

truncateCombinedText(value) ==
  IF value = EmptyStr THEN [truncatedText |-> EmptyStr, wasTruncated |-> FALSE]
  ELSE IF Len(value) <= MAX_COMBINED_TEXT_LENGTH
    THEN [truncatedText |-> value, wasTruncated |-> FALSE]
  ELSE [truncatedText |-> SubSeq(value, 1, MAX_COMBINED_TEXT_LENGTH), wasTruncated |-> TRUE]

\* normalizeSummaryMaxLength with the "rounded <= 0" guard that
\* normalizeMaxHighlights has
normalizeSummaryMaxLengthRoundedGuard(value) ==
  IF Falsy(value) \/ NonPositive(value) \/ ~IsFinite(value) THEN DEFAULT_SUMMARY_MAX_LENGTH
  ELSE IF MathRound(value) <= 0 THEN DEFAULT_SUMMARY_MAX_LENGTH
  ELSE Min(MathRound(value), DEFAULT_SUMMARY_MAX_LENGTH)

normalizeSummaryMaxLength(value) ==
  IF Falsy(value) \/ NonPositive(value) \/ ~IsFinite(value) THEN DEFAULT_SUMMARY_MAX_LENGTH
  ELSE Min(MathRound(value), DEFAULT_SUMMARY_MAX_LENGTH)

\* normalizeSource as it would be if only a missing source were defaulted
normalizeSourceKeepUnknown(source) ==
  IF source = undefined THEN <<"both">> ELSE source

normalizeSource(source) ==
  IF source \in {<<"recap">>, <<"transcript">>, <<"both">>} THEN source ELSE <<"both">>

\* value?.trim() || undefined
TrimOrUndefined(value) == IF Truthy(OptTrim(value)) THEN OptTrim(value) ELSE undefined

HasSummary(entry) == Truthy(entry.summary)

SanitizeDecision(decision, i) ==
  [decision EXCEPT !.id = Coalesce(decision.id, <<"decision-">> \o NumStr(i)),
                   !.summary = Coalesce(OptTrim(decision.summary), EmptyStr),
                   !.source = normalizeSource(decision.source),
                   !.rationale = TrimOrUndefined(decision.rationale),
                   !.supportingEvidence = TrimOrUndefined(decision.supportingEvidence)]

sanitizeDecisions(decisions) ==
  IF ~decisions.defined THEN <<>>
  ELSE SelectSeq(MapSeq(decisions.items, SanitizeDecision), HasSummary)

SanitizeActionItem(item, i) ==
  [item EXCEPT !.id = Coalesce(item.id, <<"action-">> \o NumStr(i)),
               !.summary = Coalesce(OptTrim(item.summary), EmptyStr),
               !.owner = TrimOrUndefined(item.owner),
               !.dueDate = IF Truthy(item.dueDate) THEN item.dueDate ELSE undefined,
               !.status = IF Truthy(item.status) THEN item.status ELSE undefined,
               !.source = normalizeSource(item.source)]

\* sanitizeActionItems as it would be if blank summaries were kept
sanitizeActionItemsKeepBlank(items) ==
  IF ~items.defined THEN <<>>
  ELSE MapSeq(items.items, SanitizeActionItem)

sanitizeActionItems(items) ==
  IF ~items.defined THEN <<>>
  ELSE SelectSeq(MapSeq(items.items, SanitizeActionItem), HasSummary)

SanitizeInsight(insight, i) ==
  [insight EXCEPT !.id = Coalesce(insight.id, <<"insight-">> \o NumStr(i)),
                  !.summary = Coalesce(OptTrim(insight.summary), EmptyStr),
                  !.source = normalizeSource(insight.source),
                  !.quote = TrimOrUndefined(insight.quote),
                  !.category = TrimOrUndefined(insight.category)]

sanitizeInsights(insights) ==
  IF ~insights.defined THEN <<>>
  ELSE SelectSeq(MapSeq(insights.items, SanitizeInsight), HasSummary)

RecapInputs ==
  {none} \cup [text : {undefined, EmptyStr, <<" ", "\n">>, <<" ", "r", "c", " ">>}]

\* a text of n characters
LongText(n) == [i \in 1..n |-> "r"]

\* recaps around the limit: with the transcript "t x" and the blank line the
\* first one gives exactly MAX_COMBINED_TEXT_LENGTH characters
LongRecapInputs ==
  [text : {LongText(MAX_COMBINED_TEXT_LENGTH - 5),
           <<" ">> \o LongText(MAX_COMBINED_TEXT_LENGTH) \o <<"\n">>,
           LongText(MAX_COMBINED_TEXT_LENGTH + 1)}]
TranscriptInputs ==
  {none} \cup [text : {undefined, EmptyStr, <<" ">>, <<"t", " ", "x">>}]

SummaryMaxLengthOptions ==
  {Absent, NaN, PosInfinity} \cup {Num(t) : t \in {-10, 0, 4, 2804, 9994, 10006, 50000}}

\* what summarize may return
Summaries == {undefined, EmptyStr, <<" ", "Launch is on track.", " ">>}

DecisionOk == [id |-> <<"d1">>, summary |-> <<" ", "Launch the beta", " ">>,
               source |-> <<"recap">>, rationale |-> <<" ", "Unblocks launch", " ">>,
               supportingEvidence |-> undefined]
DecisionBlank == [id |-> <<"d2">>, summary |-> <<" ", " ">>, source |-> <<"both">>,
                  rationale |-> undefined, supportingEvidence |-> undefined]
DecisionNoId == [id |-> undefined, summary |-> <<"Hire a designer">>, source |-> <<"email">>,
                 rationale |-> <<" ">>, supportingEvidence |-> <<"Budget approved">>]
DecisionEmptyId == [id |-> EmptyStr, summary |-> <<"Freeze the scope">>, source |-> undefined,
                    rationale |-> undefined, supportingEvidence |-> undefined]
DecisionLists ==
  {UndefinedArray, Arr(<<>>), Arr(<<DecisionOk>>), Arr(<<DecisionBlank, DecisionNoId>>),
   Arr(<<DecisionEmptyId, DecisionOk>>)}

ActionOk == [id |-> <<"a1">>, summary |-> <<" ", "Prepare release", " ">>, owner |-> <<" ", "Casey", " ">>,
             dueDate |-> <<"2024-05-01T00:00:00.000Z">>, status |-> <<"pending">>,
             source |-> <<"transcript">>]
ActionBlank2 == [id |-> <<"a2">>, summary |-> undefined, owner |-> <<" ">>, dueDate |-> EmptyStr,
                 status |-> undefined, source |-> <<"both">>]
ActionNoId == [id |-> undefined, summary |-> <<"Ship release">>, owner |-> <<"Sam">>,
               dueDate |-> undefined, status |-> undefined, source |-> undefined]
ActionBlankSummary == [id |-> undefined, summary |-> <<" ", " ">>, owner |-> undefined,
                       dueDate |-> undefined, status |-> undefined, source |-> undefined]
ActionItemLists ==
  {UndefinedArray, Arr(<<>>), Arr(<<ActionOk>>), Arr(<<ActionBlank2, ActionNoId>>),
   Arr(<<ActionBlankSummary, ActionNoId>>)}

InsightOk == [id |-> <<"i1">>, summary |-> <<"Customers love the speed">>, source |-> <<"recap">>,
              quote |-> <<" ", "So fast", " ">>, category |-> undefined]
InsightBlank == [id |-> undefined, summary |-> <<"\n">>, source |-> <<"both">>,
                 quote |-> undefined, category |-> undefined]
InsightNoId == [id |-> undefined, summary |-> <<"Churn is down">>, source |-> <<"survey">>,
                quote |-> <<" ">>, category |-> <<" ", "metric">>]
InsightTakenId == [id |-> <<"insight-", "2">>, summary |-> <<"Latency halved">>,
                   source |-> <<"transcript">>, quote |-> undefined, category |-> undefined]
InsightLists ==
  {UndefinedArray, Arr(<<>>), Arr(<<InsightOk>>), Arr(<<InsightBlank, InsightNoId>>),
   Arr(<<InsightTakenId, InsightNoId>>)}

SynthesisError(code) == [status |-> "rejected", error |-> [code |-> code]]

BaseInput == [combinedText |-> yInput.combinedText, recapText |-> yInput.recapText,
              transcriptText |-> yInput.transcriptText]

\* lines 456-474: sanitize the three lists, build the metadata, return
SynthesisResult(insights) ==
  [summary |-> ySummary,
   decisions |-> sanitizeDecisions(yDecisions),
   actionItems |-> sanitizeActionItems(yActionItems),
   insights |-> sanitizeInsights(insights),
   metadata |-> [usedRecap |-> Truthy(yInput.recapText),
                 usedTranscript |-> Truthy(yInput.transcriptText),
                 combinedCharacterCount |-> Len(yInput.combinedText),
                 truncatedInput |-> IF yInput.wasTruncated THEN "true" ELSE "undefined",
                 warnings |-> IF yInput.wasTruncated
                                THEN Arr(<<(<<"Combined recap and transcript content exceeded ">>
                                            \o NumStr(MAX_COMBINED_TEXT_LENGTH)
                                            \o <<" characters and was truncated for processing.">>)>>)
                                ELSE UndefinedArray]]

\* lines 373-406: trim, reject when there is no content, combine, truncate,
\* resolve the summary length, call summarize
SynthesizeMeetingContent ==
  /\ yPc = "start"
  /\ LET recapText == InputText(yRecap)
         transcriptText == InputText(yTranscript)
         truncated == truncateCombinedText(CombineTexts(recapText, transcriptText))
         input == [combinedText |-> truncated.truncatedText, recapText |-> recapText,
                   transcriptText |-> transcriptText]
     IN IF NoContentProvided(recapText, transcriptText)
          THEN /\ yOutcome' = SynthesisError("NO_CONTENT_PROVIDED")
               /\ yPc' = "settled"
               /\ UNCHANGED <<yInput, yCalls>>
          ELSE /\ yInput' = [combinedText |-> truncated.truncatedText, recapText |-> recapText,
                             transcriptText |-> transcriptText,
                             wasTruncated |-> truncated.wasTruncated]
               /\ yCalls' = <<[fn |-> "summarize", input |-> input,
                               maxLength |-> normalizeSummaryMaxLength(yOptions)]>>
               /\ yPc' = "summarize"
               /\ UNCHANGED yOutcome
  /\ UNCHANGED <<yInsights, yRecap, yTranscript, yOptions, yHasInsights, ySummary, yDecisions, yActionItems>>

\* lines 407-414
SummarizeThrows ==
  /\ yPc = "summarize"
  /\ yOutcome' = SynthesisError("SUMMARY_FAILED")
  /\ yPc' = "settled"
  /\ UNCHANGED <<yInsights, yRecap, yTranscript, yOptions, yHasInsights, yCalls, yInput, ySummary,
                 yDecisions, yActionItems>>

\* lines 416-420
SummarizeResolves ==
  /\ yPc = "summarize"
  /\ \E summary \in Summaries : ySummary' = Coalesce(OptTrim(summary), EmptyStr)
  /\ yCalls' = Append(yCalls, [fn |-> "extractDecisions", input |-> BaseInput])
  /\ yPc' = "extractDecisions"
  /\ UNCHANGED <<yInsights, yRecap, yTranscript, yOptions, yHasInsights, yInput, yDecisions, yActionItems,
                 yOutcome>>

\* ExtractDecisionsThrows as it would be if the next extractor were started
\* before the error is rethrown
ExtractDecisionsThrowsThenContinues ==
  /\ yPc = "extractDecisions"
  /\ yOutcome' = SynthesisError("DECISION_EXTRACTION_FAILED")
  /\ yCalls' = Append(yCalls, [fn |-> "extractActionItems", input |-> BaseInput])
  /\ yPc' = "settled"
  /\ UNCHANGED <<yInsights, yRecap, yTranscript, yOptions, yHasInsights, yInput, ySummary,
                 yDecisions, yActionItems>>

\* lines 421-428
ExtractDecisionsThrows ==
  /\ yPc = "extractDecisions"
  /\ yOutcome' = SynthesisError("DECISION_EXTRACTION_FAILED")
  /\ yPc' = "settled"
  /\ UNCHANGED <<yInsights, yRecap, yTranscript, yOptions, yHasInsights, yCalls, yInput, ySummary,
                 yDecisions, yActionItems>>

\* lines 430-432
ExtractDecisionsResolves ==
  /\ yPc = "extractDecisions"
  /\ \E decisions \in DecisionLists : yDecisions' = decisions
  /\ yCalls' = Append(yCalls, [fn |-> "extractActionItems", input |-> BaseInput])
  /\ yPc' = "extractActionItems"
  /\ UNCHANGED <<yInsights, yRecap, yTranscript, yOptions, yHasInsights, yInput, ySummary, yActionItems,
                 yOutcome>>

\* lines 433-440
ExtractActionItemsThrows ==
  /\ yPc = "extractActionItems"
  /\ yOutcome' = SynthesisError("ACTION_ITEM_EXTRACTION_FAILED")
  /\ yPc' = "settled"
  /\ UNCHANGED <<yInsights, yRecap, yTranscript, yOptions, yHasInsights, yCalls, yInput, ySummary,
                 yDecisions, yActionItems>>

\* lines 442-445: with an insight extractor, call it
ExtractActionItemsResolves ==
  /\ yPc = "extractActionItems"
  /\ yHasInsights
  /\ \E items \in ActionItemLists : yActionItems' = items
  /\ yCalls' = Append(yCalls, [fn |-> "extractInsights", input |-> BaseInput])
  /\ yPc' = "extractInsights"
  /\ UNCHANGED <<yInsights, yRecap, yTranscript, yOptions, yHasInsights, yInput, ySummary, yDecisions,
                 yOutcome>>

\* lines 442-443 and 456-474: without an insight extractor, insights is []
ExtractActionItemsResolvesLast ==
  /\ yPc = "extractActionItems"
  /\ ~yHasInsights
  /\ \E items \in ActionItemLists :
       /\ yActionItems' = items
       /\ yInsights' = Arr(<<>>)
       /\ yOutcome' = [status |-> "resolved",
                       result |-> [SynthesisResult(Arr(<<>>)) EXCEPT
                                     !.actionItems = sanitizeActionItems(items)]]
  /\ yPc' = "settled"
  /\ UNCHANGED <<yRecap, yTranscript, yOptions, yHasInsights, yCalls, yInput, ySummary,
                 yDecisions>>

\* lines 446-453
ExtractInsightsThrows ==
  /\ yPc = "extractInsights"
  /\ yOutcome' = SynthesisError("INSIGHT_EXTRACTION_FAILED")
  /\ yPc' = "settled"
  /\ UNCHANGED <<yInsights, yRecap, yTranscript, yOptions, yHasInsights, yCalls, yInput, ySummary,
                 yDecisions, yActionItems>>

\* lines 445 and 456-474
ExtractInsightsResolves ==
  /\ yPc = "extractInsights"
  /\ \E insights \in InsightLists :
       /\ yInsights' = insights
       /\ yOutcome' = [status |-> "resolved", result |-> SynthesisResult(insights)]
  /\ yPc' = "settled"
  /\ UNCHANGED <<yRecap, yTranscript, yOptions, yHasInsights, yCalls, yInput, ySummary,
                 yDecisions, yActionItems>>

InitSynth ==
  /\ \/ yRecap \in RecapInputs /\ yOptions \in SummaryMaxLengthOptions
     \/ yRecap \in LongRecapInputs /\ yOptions = Absent
  /\ yTranscript \in TranscriptInputs
  /\ yHasInsights \in BOOLEAN
  /\ yPc = "start"
  /\ yCalls = <<>>
  /\ yInput = none
  /\ ySummary = undefined
  /\ yDecisions = UndefinedArray /\ yActionItems = UndefinedArray /\ yInsights = UndefinedArray
  /\ yOutcome = pendingOutcome
  /\ asmIdle /\ audIdle /\ genIdle

NextSynth ==
  \/ (SynthesizeMeetingContent /\ UNCHANGED <<asmVars, audVars, genVars>>)
  \/ (SummarizeThrows /\ UNCHANGED <<asmVars, audVars, genVars>>)
  \/ (SummarizeResolves /\ UNCHANGED <<asmVars, audVars, genVars>>)
  \/ (ExtractDecisionsThrows /\ UNCHANGED <<asmVars, audVars, genVars>>)
  \/ (ExtractDecisionsResolves /\ UNCHANGED <<asmVars, audVars, genVars>>)
  \/ (ExtractActionItemsThrows /\ UNCHANGED <<asmVars, audVars, genVars>>)
  \/ (ExtractActionItemsResolves /\ UNCHANGED <<asmVars, audVars, genVars>>)
  \/ (ExtractActionItemsResolvesLast /\ UNCHANGED <<asmVars, audVars, genVars>>)
  \/ (ExtractInsightsThrows /\ UNCHANGED <<asmVars, audVars, genVars>>)
  \/ (ExtractInsightsResolves /\ UNCHANGED <<asmVars, audVars, genVars>>)

SpecSynth == InitSynth /\ [][NextSynth]_vars

(***************************************************************************)
(* createFreeformTopicGenerator                                            *)
(* (src/services/freeformTopicGenerator.ts, lines 1-248)                   *)
(* A text is a sequence of tokens.  A token is one character, except the   *)
(* literals of the source, which are kept whole; DefaultBodyLength is the  *)
(* number of characters of the one literal that is used as a body.         *)
(***************************************************************************)
DEFAULT_TITLE == <<"Additional Topic">>
DEFAULT_BODY == <<"Use this space to add any announcements or highlights that didn't fit into the main sections. Update the copy as needed before sharing.">>
DEFAULT_TONE_GUIDANCE == <<"Friendly internal tone: highlight wins, appreciate contributors, and reinforce next steps.">>
DEFAULT_MAX_BODY_LENGTH == 1500
MIN_BODY_LENGTH == 200
MAX_BODY_LENGTH == 3000
DefaultBodyLength == 135
ELLIPSIS == <<"\\u2026">>

null == <<"<null>">>

\* value.length
StrLength(s) ==
  Len(s) + (DefaultBodyLength - 1) * Cardinality({i \in 1..Len(s) : <<s[i]>> = DEFAULT_BODY})

\* value.slice(0, n): the longest prefix of at most n characters
StrSlice(s, n) ==
  IF n <= 0 THEN <<>>
  ELSE IF StrLength(s) = Len(s) THEN SubSeq(s, 1, Min(n, Len(s)))
  ELSE LET fits == {k \in 0..Len(s) : StrLength(SubSeq(s, 1, k)) <= n}
       IN SubSeq(s, 1, CHOOSE k \in fits : \A j \in fits : j <= k)

\* value.replace(/\s+/g, " "): every run of whitespace becomes one space
CollapseWhitespace(s) ==
  LET kept == SelectSeq([i \in 1..Len(s) |-> i],
                        LAMBDA i : ~IsWhitespace(s[i]) \/ i = 1 \/ ~IsWhitespace(s[i - 1]))
  IN [k \in 1..Len(kept) |-> IF IsWhitespace(s[kept[k]]) THEN " " ELSE s[kept[k]]]

sanitizeText(value) ==
  IF value \in {undefined, null, EmptyStr} THEN EmptyStr
  ELSE Trim(CollapseWhitespace(value))

\* truncateBody cutting at maxLength instead of maxLength - 1
truncateBodyNoRoomForEllipsis(body, maxLength) ==
  IF StrLength(body) <= maxLength THEN body
  ELSE Trim(StrSlice(body, maxLength)) \o ELLIPSIS

truncateBody(body, maxLength) ==
  IF StrLength(body) <= maxLength THEN body
  ELSE Trim(StrSlice(body, maxLength - 1)) \o ELLIPSIS

\* confidence values are tenths as well; null is a value of its own
Null == [kind |-> "null", tenths |-> 0]

normalizeConfidence(confidence) ==
  IF confidence = Null \/ confidence = Absent THEN Absent
  ELSE IF ~IsFinite(confidence) THEN Absent
  ELSE Num(IF confidence.tenths > 10 THEN 10
           ELSE IF confidence.tenths < 0 THEN 0 ELSE confidence.tenths)

normalizeMaxBodyLength(maxBodyLength) ==
  IF Falsy(maxBodyLength) \/ ~IsFinite(maxBodyLength)
       \/ (maxBodyLength.tenths < MIN_BODY_LENGTH * 10)
    THEN DEFAULT_MAX_BODY_LENGTH
  ELSE Min(MathRound(maxBodyLength), MAX_BODY_LENGTH)

\* normalizePrompt keeping a blank topic blank
normalizePromptKeepBlankTopic(prompt) ==
  IF prompt = none THEN none
  ELSE IF ~Truthy(OptTrim(prompt.topic)) /\ ~Truthy(OptTrim(prompt.instructions)) THEN none
  ELSE [topic |-> Coalesce(OptTrim(prompt.topic), EmptyStr),
        instructions |-> IF Truthy(OptTrim(prompt.instructions))
                           THEN OptTrim(prompt.instructions) ELSE undefined]

normalizePrompt(prompt) ==
  IF prompt = none THEN none
  ELSE IF ~Truthy(OptTrim(prompt.topic)) /\ ~Truthy(OptTrim(prompt.instructions)) THEN none
  ELSE [topic |-> IF Truthy(OptTrim(prompt.topic)) THEN OptTrim(prompt.topic) ELSE DEFAULT_TITLE,
        instructions |-> IF Truthy(OptTrim(prompt.instructions))
                           THEN OptTrim(prompt.instructions) ELSE undefined]

\* one entry of the context handed to draftCopy: id and trimmed summary
ContextEntry(entry, i) == [id |-> entry.id, summary |-> OrElse(OptTrim(entry.summary), EmptyStr)]

\* action items carry the trimmed owner as well; the key is left out when blank
ContextActionItem(entry, i) ==
  [id |-> entry.id, summary |-> OrElse(OptTrim(entry.summary), EmptyStr),
   owner |-> IF Truthy(OptTrim(entry.owner)) THEN OptTrim(entry.owner) ELSE undefined]

HasIdAndSummary(item) == Truthy(item.id) /\ Truthy(item.summary)

NormalizeList(list, F(_, _)) ==
  IF list.defined THEN SelectSeq(MapSeq(list.items, F), HasIdAndSummary) ELSE <<>>

normalizeContext(context) ==
  IF context = none
    THEN [summary |-> undefined, decisions |-> <<>>, insights |-> <<>>,
          actionItems |-> <<>>, audioHighlights |-> <<>>]
  ELSE [summary |-> OptTrim(context.summary),
        decisions |-> NormalizeList(context.decisions, ContextEntry),
        insights |-> NormalizeList(context.insights, ContextEntry),
        actionItems |-> NormalizeList(context.actionItems, ContextActionItem),
        audioHighlights |-> NormalizeList(context.audioHighlights, ContextEntry)]

\* options?.defaultToneGuidance?.trim() || DEFAULT_TONE_GUIDANCE
FallbackTone(options) == OrElse(OptTrim(options.defaultToneGuidance), DEFAULT_TONE_GUIDANCE)

PromptTopic(prompt) == IF prompt = none THEN undefined ELSE prompt.topic

buildFallbackSuggestion(prompt, toneFallback) ==
  [prompt |-> prompt,
   title |-> OrElse(PromptTopic(prompt), DEFAULT_TITLE),
   body |-> DEFAULT_BODY,
   toneGuidance |-> toneFallback,
   isPromptAligned |-> prompt # none]

\* draft?.field, for a draft that may be undefined or null
DraftField(draft, field) == IF draft \in {none, Null} THEN undefined ELSE draft[field]

\* draft?.isPromptAligned, written "true", "false", "undefined" or "null"
DraftAligned(draft) == IF draft \in {none, Null} THEN "undefined" ELSE draft.isPromptAligned

buildSuggestion(prompt, draft, toneFallback, maxBodyLength) ==
  [prompt |-> prompt,
   title |-> OrElse(sanitizeText(DraftField(draft, "title")),
                    OrElse(PromptTopic(prompt), DEFAULT_TITLE)),
   body |-> truncateBody(OrElse(sanitizeText(DraftField(draft, "body")), DEFAULT_BODY),
                         maxBodyLength),
   toneGuidance |-> OrElse(sanitizeText(DraftField(draft, "toneGuidance")), toneFallback),
   confidence |-> normalizeConfidence(IF draft \in {none, Null} THEN Absent
                                      ELSE draft.confidence),
   isPromptAligned |-> IF DraftAligned(draft) \in {"true", "false"}
                         THEN DraftAligned(draft) = "true"
                         ELSE prompt # none]

\* a draft body of n characters with a space after every six letters
DraftBody(n) == [i \in 1..n |-> IF i % 7 = 3 THEN " " ELSE "b"]

GeneratorOptions ==
  [maxBodyLength : {Absent, NaN, PosInfinity}
                     \cup {Num(t) : t \in {0, 1990, 1996, 2000, 2004, 2800, 29996, 50000}},
   defaultToneGuidance : {undefined, <<" ">>, <<" ", "Friendly and appreciative.", " ">>}]

ContextFull ==
  [summary |-> <<" ", "We shipped the new feature.", " ">>,
   decisions |-> Arr(<<[id |-> <<"d1">>, summary |-> <<" ", "Launch the beta", " ">>],
                       [id |-> <<"d2">>, summary |-> <<" ", " ">>]>>),
   insights |-> Arr(<<[id |-> <<"i1">>, summary |-> <<" ", "Customers love the speed", " ">>]>>),
   actionItems |-> Arr(<<[id |-> <<"a1">>, summary |-> <<" ", "Prepare release", " ">>,
                          owner |-> <<" ", "Casey", " ">>],
                         [id |-> <<"a2">>, summary |-> <<" ", " ", " ">>, owner |-> undefined]>>),
   audioHighlights |-> Arr(<<[id |-> EmptyStr, summary |-> <<"Performance wins">>]>>)]

ContextEmpty ==
  [summary |-> undefined, decisions |-> UndefinedArray, insights |-> UndefinedArray,
   actionItems |-> UndefinedArray, audioHighlights |-> UndefinedArray]

GeneratorContexts == {none, ContextEmpty, ContextFull}

DraftBase ==
  [title |-> <<" ", "Team", "\n", " ", "Wins", " ">>, body |-> <<"Add", " ", " ", "shout-outs.">>,
   toneGuidance |-> <<" ", "Keep upbeat.", " ">>, confidence |-> Num(9),
   isPromptAligned |-> "undefined"]

\* what draftCopy may return: nothing, null, and DraftBase with one field varied
Drafts ==
  {none, Null, DraftBase}
    \cup {[DraftBase EXCEPT !.title = t] : t \in {undefined, null, EmptyStr, <<" ", "\n">>}}
    \cup {[DraftBase EXCEPT !.body = b] :
            b \in {undefined, null, EmptyStr, <<"\n", " ">>}
                    \cup {DraftBody(n) : n \in {MIN_BODY_LENGTH, MIN_BODY_LENGTH + 1, 281,
                                                DEFAULT_MAX_BODY_LENGTH + 1, MAX_BODY_LENGTH,
                                                MAX_BODY_LENGTH + 1}}}
    \cup {[DraftBase EXCEPT !.toneGuidance = t] : t \in {undefined, null, <<" ">>}}
    \cup {[DraftBase EXCEPT !.confidence = c] :
            c \in {Absent, Null, NaN, PosInfinity, Num(-5), Num(20)}}
    \cup {[DraftBase EXCEPT !.isPromptAligned = a] : a \in {"true", "false", "null"}}

draftCopyThrew == [thrown |-> TRUE]

\* lines 71-88: normalize prompt and context, resolve tone and body length,
\* call draftCopy
Generate ==
  /\ gPc = "start"
  /\ LET normalizedContext == normalizeContext(gContext)
     IN gDraftInput' =
          [prompt |-> normalizePrompt(gPrompt),
           context |-> [summary |-> normalizedContext.summary,
                        decisions |-> normalizedContext.decisions,
                        insights |-> normalizedContext.insights,
                        actionItems |-> normalizedContext.actionItems,
                        audioHighlights |-> normalizedContext.audioHighlights,
                        tone |-> FallbackTone(gOptions),
                        maxBodyLength |-> normalizeMaxBodyLength(gOptions.maxBodyLength)]]
  /\ gPc' = "draftCopy"
  /\ UNCHANGED <<gPrompt, gContext, gOptions, gDraft, gOutcome>>

\* lines 90-95
DraftCopyResolves ==
  /\ gPc = "draftCopy"
  /\ \E draft \in Drafts :
       /\ gDraft' = draft
       /\ gOutcome' = [status |-> "resolved",
                       value |-> buildSuggestion(gDraftInput.prompt, draft,
                                                 gDraftInput.context.tone,
                                                 gDraftInput.context.maxBodyLength)]
  /\ gPc' = "settled"
  /\ UNCHANGED <<gPrompt, gContext, gOptions, gDraftInput>>

\* DraftCopyThrows as it would be without the catch
DraftCopyThrowsUncaught ==
  /\ gPc = "draftCopy"
  /\ gDraft' = draftCopyThrew
  /\ gOutcome' = [status |-> "rejected", error |-> [code |-> "model failure"]]
  /\ gPc' = "settled"
  /\ UNCHANGED <<gPrompt, gContext, gOptions, gDraftInput>>

\* lines 96-102
DraftCopyThrows ==
  /\ gPc = "draftCopy"
  /\ gDraft' = draftCopyThrew
  /\ gOutcome' = [status |-> "resolved",
                  value |-> buildFallbackSuggestion(gDraftInput.prompt, gDraftInput.context.tone)]
  /\ gPc' = "settled"
  /\ UNCHANGED <<gPrompt, gContext, gOptions, gDraftInput>>

InitGen ==
  /\ gPrompt \in Prompts
  /\ gContext \in GeneratorContexts
  /\ gOptions \in GeneratorOptions
  /\ gPc = "start"
  /\ gDraftInput = none
  /\ gDraft = none
  /\ gOutcome = pendingOutcome
  /\ asmIdle /\ audIdle /\ synIdle

NextGen ==
  \/ (Generate /\ UNCHANGED <<asmVars, audVars, synVars>>)
  \/ (DraftCopyResolves /\ UNCHANGED <<asmVars, audVars, synVars>>)
  \/ (DraftCopyThrows /\ UNCHANGED <<asmVars, audVars, synVars>>)

SpecGen == InitGen /\ [][NextGen]_vars

(***************************************************************************)
(* Properties of assembleNewsletter (checked under Spec)                   *)
(***************************************************************************)
SectionNames == {"introduction", "mainUpdates", "actionItems", "closing", "freeformTopic"}

\* C1: whenever synthesizeContent rejected, assembleNewsletter never holds a
\* response, and once it has settled it has rejected with the synthesis
\* error, whatever summarizeAudio did and whether or not a freeform
\* generator was supplied.
C1_SynthesisFailureIsFatal ==
  synthCall.state = "rejected" =>
    /\ outcome.status # "resolved"
    /\ pc = "settled" => (outcome.status = "rejected" /\ outcome.error = synthCall.value)

C1_Witness ==
  /\ pc = "settled"
  /\ synthCall.state = "rejected"
  /\ outcome.status = "rejected"
  /\ audioCall.state = "resolved"
  /\ dependencies.generateFreeformTopic

\* C2: when synthesizeContent resolved and assembleNewsletter has settled, it
\* resolved with a response holding all five sections; a rejected
\* summarizeAudio counts as no audio summary and a rejected
\* generateFreeformTopic as no suggestion (the assembler's fallback).
C2_OptionalStagesRecoverLocally ==
  (pc = "settled" /\ synthCall.state = "resolved") =>
    /\ outcome.status = "resolved"
    /\ outcome.response # none
    /\ DOMAIN outcome.response.sections = SectionNames
    /\ Len(outcome.response.sections.mainUpdates) >= 1
    /\ audioCall.state = "rejected" =>
         /\ outcome.response.metadata.audioSummaryIncluded = FALSE
         /\ outcome.response.sections.introduction
              = buildIntroductionSection(synthCall.value, none, dependencies.generateId, 1)
         /\ outcome.response.sections.mainUpdates
              = buildMainUpdatesSections(synthCall.value, none, dependencies.generateId, 2)
    /\ freeformCall.state = "rejected" =>
         outcome.response.sections.freeformTopic
           = buildFreeformSuggestion(request.freeformTopicPrompt)

C2_Witness ==
  /\ pc = "settled"
  /\ outcome.status = "resolved"
  /\ audioCall.state = "rejected"
  /\ freeformCall.state = "rejected"

\* C3: at the moment assembleNewsletter settles, no invocation of
\* summarizeAudio, synthesizeContent or generateFreeformTopic that it started
\* is still pending.
C3_NoWorkOutlivesTheCall ==
  pc = "settled" => pendingAtSettle = {}

\* C4: generateFreeformTopic is invoked only once synthesizeContent has
\* resolved and the audio branch has settled, never runs while either is
\* pending, is never invoked after a rejected synthesis, is invoked at most
\* once and last, and its context is the settled synthesis result plus the
\* audio highlights (if any).
C4_FreeformFollowsBothBranches ==
  /\ freeformCall.state # "idle" =>
       /\ synthCall.state = "resolved"
       /\ AudioBranchSettled
       /\ freeformContext.summary = synthCall.value.summary
       /\ freeformContext.decisions = synthCall.value.decisions
       /\ freeformContext.insights = synthCall.value.insights
       /\ freeformContext.actionItems = synthCall.value.actionItems
       /\ freeformContext.prompt = request.freeformTopicPrompt
       /\ freeformContext.audioHighlights
            = IF audioCall.state = "resolved" THEN Arr(audioCall.value.highlights)
              ELSE UndefinedArray
       /\ DependencyCalls[Len(DependencyCalls)] = "generateFreeformTopic"
  /\ freeformCall.state = "pending" => PendingCalls = {"generateFreeformTopic"}
  /\ synthCall.state = "rejected" => freeformCall.state = "idle"
  /\ Cardinality({i \in 1..Len(callLog) : callLog[i] = "generateFreeformTopic"}) <= 1

C4_Witness ==
  /\ freeformCall.state = "pending"
  /\ audioCall.state = "resolved"
  /\ Len(audioCall.value.highlights) > 0

\* C5 as stated: every response has a non-empty mainUpdates array and a
\* freeformTopic with non-empty title and body, for every outcome of the
\* optional stages.
C5_AlwaysNonEmptyFreeform ==
  outcome.status = "resolved" =>
    /\ Len(outcome.response.sections.mainUpdates) > 0
    /\ outcome.response.sections.freeformTopic.title # EmptyStr
    /\ outcome.response.sections.freeformTopic.body # EmptyStr

\* C5 amended: every response has a non-empty mainUpdates array; the
\* freeformTopic has a non-empty title and body whenever it is the
\* assembler's fallback (no generator supplied, or the generator rejected);
\* when generateFreeformTopic resolved, its title and body are passed
\* through unchanged.
C5_NonEmptyUnlessGeneratorReturnsBlank ==
  outcome.status = "resolved" =>
    /\ Len(outcome.response.sections.mainUpdates) > 0
    /\ freeformCall.state # "resolved" =>
         /\ outcome.response.sections.freeformTopic.title # EmptyStr
         /\ outcome.response.sections.freeformTopic.body # EmptyStr
    /\ freeformCall.state = "resolved" =>
         /\ outcome.response.sections.freeformTopic.title = freeformCall.value.title
         /\ outcome.response.sections.freeformTopic.body = freeformCall.value.body

\* minimal input: no audio, no prompt, nothing extracted, generator failed
C5_Witness ==
  /\ outcome.status = "resolved"
  /\ request.audio = none
  /\ request.freeformTopicPrompt = none
  /\ freeformCall.state = "rejected"
  /\ synthCall.value.summary = EmptyStr
  /\ synthCall.value.decisions = <<>>
  /\ synthCall.value.insights = <<>>
  /\ synthCall.value.actionItems = <<>>

(***************************************************************************)
(* Properties of summarizeMeetingAudio (checked under SpecAudio)           *)
(***************************************************************************)
CallNames(calls) == [i \in 1..Len(calls) |-> calls[i].fn]

\* C6: no audio descriptor rejects with AUDIO_NOT_PROVIDED; otherwise a
\* duration <= 0 rejects with INVALID_AUDIO_METADATA (even when the size is
\* over the limit); otherwise a duration > 3600 or a size > 200 MiB rejects
\* with AUDIO_LIMIT_EXCEEDED; 3600 seconds and exactly 200 MiB pass; none of
\* these rejections invokes transcribeAudio or generateHighlights.
C6_ValidationOrder ==
  sPc # "start" =>
    LET expected ==
          IF sAudio = none THEN "AUDIO_NOT_PROVIDED"
          ELSE IF sAudio.durationSeconds <= 0 THEN "INVALID_AUDIO_METADATA"
          ELSE IF sAudio.durationSeconds > 3600 \/ sAudio.sizeBytes > 209715200
            THEN "AUDIO_LIMIT_EXCEEDED"
          ELSE "passes"
    IN IF expected = "passes"
         THEN /\ Len(sCalls) >= 1
              /\ sOutcome.status = "rejected" =>
                   sOutcome.error.code \notin
                     {"AUDIO_NOT_PROVIDED", "INVALID_AUDIO_METADATA", "AUDIO_LIMIT_EXCEEDED"}
         ELSE /\ sOutcome = AudioError(expected)
              /\ sCalls = <<>>
              /\ sTranscribeCall.state = "idle"
              /\ sHighlightsCall.state = "idle"

\* a non-positive duration wins over an oversized file
C6_Witness ==
  /\ sPc = "settled"
  /\ sAudio # none
  /\ sAudio.durationSeconds = 0
  /\ sAudio.sizeBytes > 209715200
  /\ sOutcome = AudioError("INVALID_AUDIO_METADATA")

\* the maximum the claim C7 states: the rounded request when it is positive
\* and finite, 5 otherwise, never more than 10
C7_StatedMaximum(v) ==
  IF v.kind = "num" /\ v.tenths > 0
    THEN (IF (v.tenths + 5) \div 10 <= 10 THEN (v.tenths + 5) \div 10 ELSE 10)
    ELSE 5

\* C7 as stated: a successful call returns the input's durationSeconds and at
\* most the stated maximum of highlights, and that maximum is the
\* maxHighlights passed to generateHighlights.
C7_StatedMaximumHolds ==
  /\ Len(sCalls) >= 2 => sCalls[2].maxHighlights = C7_StatedMaximum(sOptions)
  /\ sOutcome.status = "resolved" =>
       /\ sOutcome.summary.durationSeconds = sAudio.durationSeconds
       /\ Len(sOutcome.summary.highlights) <= C7_StatedMaximum(sOptions)

\* the maximum of the amended claim: a positive finite request that rounds
\* to 0 (below 0.5) also falls back to 5
C7_AmendedMaximum(v) ==
  IF v.kind = "num" /\ v.tenths > 0 /\ (v.tenths + 5) \div 10 >= 1
    THEN (IF (v.tenths + 5) \div 10 <= 10 THEN (v.tenths + 5) \div 10 ELSE 10)
    ELSE 5

\* C7 amended: a successful call returns the input's durationSeconds and at
\* most `maximum` highlights, where maximum is the rounded requested
\* maxHighlights when that is finite and rounds to at least 1, 5 when the
\* request is absent, non-positive, non-finite or rounds to 0, and never
\* more than 10; the same maximum is passed to generateHighlights.
C7_ResolvedMaximumBoundsHighlights ==
  /\ Len(sCalls) >= 2 => sCalls[2].maxHighlights = C7_AmendedMaximum(sOptions)
  /\ sOutcome.status = "resolved" =>
       /\ sOutcome.summary.durationSeconds = sAudio.durationSeconds
       /\ Len(sOutcome.summary.highlights) <= C7_AmendedMaximum(sOptions)
       /\ C7_AmendedMaximum(sOptions) \in 1..10

\* a request of 0.4 resolved to the default 5, and 5 highlights came back
C7_Witness ==
  /\ sOutcome.status = "resolved"
  /\ sOptions = Num(4)
  /\ Len(sOutcome.summary.highlights) = 5

\* C8: when generateHighlights returns more items than the resolved maximum,
\* the result holds exactly the first `maximum` items in their order and
\* warnings is one truncation warning naming both counts; otherwise all
\* items are returned unchanged and warnings is undefined.
C8_TruncationToMaximum ==
  sOutcome.status = "resolved" =>
    LET returned == IF sHighlightsCall.value.defined THEN sHighlightsCall.value.items ELSE <<>>
        maximum == sCalls[2].maxHighlights
    IN IF Len(returned) > maximum
         THEN /\ Len(sOutcome.summary.highlights) = maximum
              /\ \A i \in 1..maximum : sOutcome.summary.highlights[i] = returned[i]
              /\ sOutcome.summary.warnings.defined
              /\ Len(sOutcome.summary.warnings.items) = 1
              /\ sOutcome.summary.warnings.items[1]
                   = <<"Returned highlight count (">> \o NumStr(Len(returned))
                       \o <<") exceeded the configured maximum (">> \o NumStr(maximum)
                       \o <<"). Results were truncated.">>
         ELSE /\ sOutcome.summary.highlights = returned
              /\ sOutcome.summary.warnings = UndefinedArray

\* eleven highlights against the ceiling of ten
C8_Witness ==
  /\ sOutcome.status = "resolved"
  /\ sHighlightsCall.value.defined
  /\ Len(sHighlightsCall.value.items) = 11
  /\ Len(sOutcome.summary.highlights) = 10
  /\ sOutcome.summary.warnings.defined

\* C9: the stages run in the order validate, transcribeAudio,
\* generateHighlights, each dependency at most once; a throwing
\* transcribeAudio rejects with TRANSCRIPTION_FAILED and a transcript that is
\* empty after trimming with EMPTY_TRANSCRIPT, both without invoking
\* generateHighlights; a throwing generateHighlights rejects with
\* HIGHLIGHT_GENERATION_FAILED; a rejection carries no summary.
C9_StagesInOrder ==
  /\ CallNames(sCalls) \in {<<>>, <<"transcribeAudio">>, <<"transcribeAudio", "generateHighlights">>}
  /\ Len(sCalls) >= 1 =>
       (sAudio # none /\ sAudio.durationSeconds > 0 /\ sAudio.durationSeconds <= 3600
          /\ sAudio.sizeBytes <= 209715200)
  /\ sTranscribeCall.state = "rejected" =>
       (sOutcome = AudioError("TRANSCRIPTION_FAILED") /\ sHighlightsCall.state = "idle"
          /\ Len(sCalls) = 1)
  /\ (sTranscribeCall.state = "resolved" /\ ~Truthy(OptTrim(sTranscribeCall.value))) =>
       (sOutcome = AudioError("EMPTY_TRANSCRIPT") /\ sHighlightsCall.state = "idle"
          /\ Len(sCalls) = 1)
  /\ (sTranscribeCall.state = "resolved" /\ Truthy(OptTrim(sTranscribeCall.value))) =>
       (Len(sCalls) = 2 /\ sCalls[2].transcript = Trim(sTranscribeCall.value))
  /\ sHighlightsCall.state = "rejected" => sOutcome = AudioError("HIGHLIGHT_GENERATION_FAILED")
  /\ sOutcome.status = "rejected" => DOMAIN sOutcome = {"status", "error"}
  /\ sOutcome.status = "resolved" =>
       (sTranscribeCall.state = "resolved" /\ sHighlightsCall.state = "resolved")

\* a transcript of whitespace only
C9_Witness ==
  /\ sTranscribeCall.state = "resolved"
  /\ sTranscribeCall.value = <<" ", "\n">>
  /\ sOutcome = AudioError("EMPTY_TRANSCRIPT")

(***************************************************************************)
(* Properties of synthesizeMeetingContent (checked under SpecSynth)        *)
(***************************************************************************)
\* the text of an input after trimming, "" when the input or its text is absent
C10_Trimmed(input) ==
  IF input = none THEN EmptyStr
  ELSE IF input.text = undefined THEN EmptyStr
  ELSE Trim(input.text)

StageFailures == {"SUMMARY_FAILED", "DECISION_EXTRACTION_FAILED",
                  "ACTION_ITEM_EXTRACTION_FAILED", "INSIGHT_EXTRACTION_FAILED"}

\* C10: the call rejects with NO_CONTENT_PROVIDED exactly when recap and
\* transcript are both empty after trimming (or absent), and then invokes no
\* dependency; with at least one non-empty text it is rejected only when a
\* dependency threw, and a result carries usedRecap and usedTranscript equal
\* to the non-emptiness of the respective trimmed text.
C10_NoContentExactlyWhenBothEmpty ==
  yPc # "start" =>
    LET bothEmpty == C10_Trimmed(yRecap) = EmptyStr /\ C10_Trimmed(yTranscript) = EmptyStr
    IN /\ bothEmpty <=> yOutcome = SynthesisError("NO_CONTENT_PROVIDED")
       /\ bothEmpty => yCalls = <<>>
       /\ ~bothEmpty =>
            /\ Len(yCalls) >= 1
            /\ yOutcome.status = "rejected" => yOutcome.error.code \in StageFailures
            /\ yPc = "settled" => yOutcome.status \in {"resolved", "rejected"}
            /\ yOutcome.status = "resolved" =>
                 /\ yOutcome.result.metadata.usedRecap = (C10_Trimmed(yRecap) # EmptyStr)
                 /\ yOutcome.result.metadata.usedTranscript
                      = (C10_Trimmed(yTranscript) # EmptyStr)

\* a recap of whitespace only and a real transcript
C10_Witness ==
  /\ yOutcome.status = "resolved"
  /\ yRecap # none
  /\ yRecap.text = <<" ", "\n">>
  /\ yOutcome.result.metadata.usedRecap = FALSE
  /\ yOutcome.result.metadata.usedTranscript = TRUE

\* recap and transcript after trimming, joined by a blank line when both are
\* non-empty
C11_Combined ==
  LET r == C10_Trimmed(yRecap)
      t == C10_Trimmed(yTranscript)
  IN IF r # EmptyStr /\ t # EmptyStr THEN r \o <<"\n", "\n">> \o t
     ELSE IF r # EmptyStr THEN r ELSE t

C11_IsTruncationWarning(w) ==
  /\ Len(w) >= 1
  /\ w[1] = "Combined recap and transcript content exceeded "
  /\ w[Len(w)] = " characters and was truncated for processing."

\* C11: a combined text longer than 20,000 characters reaches every
\* dependency as exactly its first 20,000 characters, and the result reports
\* combinedCharacterCount 20,000, truncatedInput true and a truncation
\* warning; a combined text of at most 20,000 characters is passed unchanged,
\* with truncatedInput undefined and no warning.
C11_TruncationAtLimit ==
  Len(yCalls) >= 1 =>
    IF Len(C11_Combined) > 20000
      THEN /\ \A i \in 1..Len(yCalls) :
                yCalls[i].input.combinedText = SubSeq(C11_Combined, 1, 20000)
           /\ yOutcome.status = "resolved" =>
                /\ yOutcome.result.metadata.combinedCharacterCount = 20000
                /\ yOutcome.result.metadata.truncatedInput = "true"
                /\ yOutcome.result.metadata.warnings.defined
                /\ \E i \in 1..Len(yOutcome.result.metadata.warnings.items) :
                     C11_IsTruncationWarning(yOutcome.result.metadata.warnings.items[i])
      ELSE /\ \A i \in 1..Len(yCalls) : yCalls[i].input.combinedText = C11_Combined
           /\ yOutcome.status = "resolved" =>
                /\ yOutcome.result.metadata.combinedCharacterCount = Len(C11_Combined)
                /\ yOutcome.result.metadata.truncatedInput = "undefined"
                /\ ~yOutcome.result.metadata.warnings.defined

\* a result for a combined text that was cut in the middle of the blank line
C11_Witness ==
  /\ yOutcome.status = "resolved"
  /\ Len(C11_Combined) > 20000
  /\ C10_Trimmed(yTranscript) # EmptyStr
  /\ yOutcome.result.metadata.truncatedInput = "true"
  /\ Len(yCalls) = 4

\* a result for a combined text of exactly 20,000 characters
C11_WitnessAtLimit ==
  /\ yOutcome.status = "resolved"
  /\ Len(C11_Combined) = 20000
  /\ yOutcome.result.metadata.truncatedInput = "undefined"

\* the dependencies in the order the code calls them
C12_Stages ==
  <<"summarize", "extractDecisions", "extractActionItems">>
    \o (IF yHasInsights THEN <<"extractInsights">> ELSE <<>>)

C12_FailureCode(fn) ==
  CASE fn = "summarize" -> "SUMMARY_FAILED"
    [] fn = "extractDecisions" -> "DECISION_EXTRACTION_FAILED"
    [] fn = "extractActionItems" -> "ACTION_ITEM_EXTRACTION_FAILED"
    [] fn = "extractInsights" -> "INSIGHT_EXTRACTION_FAILED"

\* C12: the dependencies invoked so far are always a prefix of summarize,
\* extractDecisions, extractActionItems, extractInsights (the last only if
\* supplied), so each runs at most once and only after its predecessors; a
\* call rejected by a stage carries the code of the last stage invoked and
\* no result; a result is returned only after every stage was invoked.
C12_StagesInSequence ==
  /\ Len(yCalls) <= Len(C12_Stages)
  /\ \A i \in 1..Len(yCalls) : yCalls[i].fn = C12_Stages[i]
  /\ (yOutcome.status = "rejected" /\ yOutcome.error.code # "NO_CONTENT_PROVIDED") =>
       /\ Len(yCalls) >= 1
       /\ yOutcome.error.code = C12_FailureCode(yCalls[Len(yCalls)].fn)
       /\ DOMAIN yOutcome = {"status", "error"}
  /\ yOutcome.status = "resolved" => Len(yCalls) = Len(C12_Stages)
  /\ yOutcome.status = "pending" => yPc # "settled"

\* extractDecisions threw after summarize succeeded, with an insight
\* extractor supplied that is never reached
C12_Witness ==
  /\ yHasInsights
  /\ yOutcome = SynthesisError("DECISION_EXTRACTION_FAILED")
  /\ Len(yCalls) = 2
  /\ ySummary # undefined

C13_Sources == {<<"recap">>, <<"transcript">>, <<"both">>}

C13_HasText(entry) == entry.summary # undefined /\ Trim(entry.summary) # EmptyStr

\* the entries an extractor returned that have a non-blank summary, in order
C13_Kept(returned) == IF returned.defined THEN SelectSeq(returned.items, C13_HasText) ELSE <<>>

C13_Sanitized(returned, result) ==
  /\ Len(result) = Len(C13_Kept(returned))
  /\ \A i \in 1..Len(result) :
       /\ result[i].summary = Trim(C13_Kept(returned)[i].summary)
       /\ result[i].summary # EmptyStr
       /\ result[i].source \in C13_Sources
       /\ result[i].source = IF C13_Kept(returned)[i].source \in C13_Sources
                               THEN C13_Kept(returned)[i].source ELSE <<"both">>

\* C13: in every result the decisions, action items and insights are the
\* extracted entries with a non-blank summary, in their original order, each
\* with its summary trimmed and its source kept when it is recap, transcript
\* or both and replaced by both otherwise.
C13_EntriesSanitized ==
  yOutcome.status = "resolved" =>
    /\ C13_Sanitized(yDecisions, yOutcome.result.decisions)
    /\ C13_Sanitized(yActionItems, yOutcome.result.actionItems)
    /\ C13_Sanitized(yInsights, yOutcome.result.insights)

\* a blank decision is dropped, the next one has an unknown source; a blank
\* insight is dropped as well
C13_Witness ==
  /\ yOutcome.status = "resolved"
  /\ yDecisions = Arr(<<DecisionBlank, DecisionNoId>>)
  /\ Len(yOutcome.result.decisions) = 1
  /\ yOutcome.result.decisions[1].source = <<"both">>
  /\ yInsights = Arr(<<InsightBlank, InsightNoId>>)
  /\ Len(yOutcome.result.insights) = 1
  /\ yActionItems = Arr(<<ActionOk>>)
  /\ yOutcome.result.actionItems[1].summary = <<"Prepare release">>

\* the 1-based positions, in the list the extractor returned, of the entries
\* that are kept
C14_KeptPositions(returned) ==
  IF returned.defined
    THEN SelectSeq([i \in 1..Len(returned.items) |-> i],
                   LAMBDA i : C13_HasText(returned.items[i]))
    ELSE <<>>

C14_IdsAssigned(returned, result, prefix, absentIds) ==
  /\ Len(result) = Len(C14_KeptPositions(returned))
  /\ \A k \in 1..Len(result) :
       LET n == C14_KeptPositions(returned)[k]
       IN result[k].id = IF returned.items[n].id \in absentIds
                           THEN <<prefix>> \o NumStr(n)
                           ELSE returned.items[n].id

\* C14: an extracted entry whose id is absent or the empty string receives
\* decision-<n>, action-<n> or insight-<n>, n being its position in the list
\* the extractor returned; an entry with a non-empty id keeps it.
C14_EmptyIdGetsFallback ==
  yOutcome.status = "resolved" =>
    /\ C14_IdsAssigned(yDecisions, yOutcome.result.decisions, "decision-", {undefined, EmptyStr})
    /\ C14_IdsAssigned(yActionItems, yOutcome.result.actionItems, "action-", {undefined, EmptyStr})
    /\ C14_IdsAssigned(yInsights, yOutcome.result.insights, "insight-", {undefined, EmptyStr})

\* what the code does: only an undefined id is replaced
C14_UndefinedIdGetsFallback ==
  yOutcome.status = "resolved" =>
    /\ C14_IdsAssigned(yDecisions, yOutcome.result.decisions, "decision-", {undefined})
    /\ C14_IdsAssigned(yActionItems, yOutcome.result.actionItems, "action-", {undefined})
    /\ C14_IdsAssigned(yInsights, yOutcome.result.insights, "insight-", {undefined})

C15_Resolved(v) ==
  IF v.kind = "num" /\ v.tenths > 0
    THEN (IF (v.tenths + 5) \div 10 <= 1000 THEN (v.tenths + 5) \div 10 ELSE 1000)
    ELSE 1000

C16_RequestedLengthPassed ==
  (yOptions = Num(50000) /\ Len(yCalls) >= 1) => yCalls[1].maxLength = 5000

\* what the code does: with summaryMaxLength = 5000 summarize is invoked
\* with the ceiling, maxLength 1000
C16_RequestedLengthCapped ==
  (yOptions = Num(50000) /\ Len(yCalls) >= 1) =>
    /\ yCalls[1].fn = "summarize"
    /\ yCalls[1].maxLength = 1000

(***************************************************************************)
(* Properties of the freeform topic generator (checked under SpecGen)      *)
(***************************************************************************)
\* the request prompt's topic and instructions after trimming ("" when absent)
C17_Topic == IF gPrompt = none \/ gPrompt.topic = undefined THEN EmptyStr ELSE Trim(gPrompt.topic)
C17_Instructions ==
  IF gPrompt = none \/ gPrompt.instructions = undefined THEN EmptyStr
  ELSE Trim(gPrompt.instructions)

\* whether a normalized prompt exists
C17_HasPrompt == C17_Topic # EmptyStr \/ C17_Instructions # EmptyStr

C17_FallbackTone ==
  IF gOptions.defaultToneGuidance = undefined \/ Trim(gOptions.defaultToneGuidance) = EmptyStr
    THEN <<"Friendly internal tone: highlight wins, appreciate contributors, and reinforce next steps.">>
    ELSE Trim(gOptions.defaultToneGuidance)

\* C17: generate always resolves with a suggestion, whatever draftCopy does;
\* when draftCopy throws the suggestion is the fallback: the prompt topic or
\* "Additional Topic" as title, the default body, the fallback tone,
\* isPromptAligned telling whether a normalized prompt exists, no confidence.
C17_NeverFailsOutward ==
  gPc = "settled" =>
    /\ gOutcome.status = "resolved"
    /\ {"title", "body", "toneGuidance", "isPromptAligned"} \subseteq DOMAIN gOutcome.value
    /\ gDraft = draftCopyThrew =>
         /\ DOMAIN gOutcome.value = {"prompt", "title", "body", "toneGuidance", "isPromptAligned"}
         /\ gOutcome.value.title = IF C17_Topic # EmptyStr THEN C17_Topic
                                   ELSE <<"Additional Topic">>
         /\ gOutcome.value.body = DEFAULT_BODY
         /\ gOutcome.value.toneGuidance = C17_FallbackTone
         /\ gOutcome.value.isPromptAligned = C17_HasPrompt
         /\ (gOutcome.value.prompt # none) = C17_HasPrompt

\* draftCopy threw for a prompt with a topic and instructions
C17_Witness ==
  /\ gPc = "settled"
  /\ gDraft = draftCopyThrew
  /\ C17_Topic = <<"Team Wins">>
  /\ C17_Instructions # EmptyStr
  /\ gOutcome.value.title = <<"Team Wins">>
  /\ gOutcome.value.isPromptAligned

\* the body length the options resolve to
C18_Resolved(v) ==
  IF v.kind = "num" /\ v.tenths >= 2000
    THEN (IF (v.tenths + 5) \div 10 <= 3000 THEN (v.tenths + 5) \div 10 ELSE 3000)
    ELSE 1500

\* the body of the draft after whitespace normalisation ("" without one)
C18_DraftBody ==
  IF gDraft \in {none, Null, draftCopyThrew} THEN EmptyStr ELSE sanitizeText(gDraft.body)

\* C18: the body of every suggestion is at most the resolved maxBodyLength
\* long; that length is 1500 when the option is absent, non-finite or below
\* 200 and otherwise the rounded option capped at 3000, so it lies within
\* 200..3000, and it is the maxBodyLength handed to draftCopy; a draft body
\* longer than it is cut to a prefix and ends with an ellipsis.
C18_BodyWithinLimit ==
  gPc # "start" =>
    /\ gDraftInput.context.maxBodyLength = C18_Resolved(gOptions.maxBodyLength)
    /\ gDraftInput.context.maxBodyLength \in 200..3000
    /\ gPc = "settled" =>
         /\ StrLength(gOutcome.value.body) <= C18_Resolved(gOptions.maxBodyLength)
         /\ StrLength(C18_DraftBody) > C18_Resolved(gOptions.maxBodyLength) =>
              LET body == gOutcome.value.body
              IN /\ Len(body) >= 1
                 /\ <<body[Len(body)]>> = ELLIPSIS
                 /\ SubSeq(body, 1, Len(body) - 1) = SubSeq(C18_DraftBody, 1, Len(body) - 1)
         /\ (StrLength(C18_DraftBody) \in 1..C18_Resolved(gOptions.maxBodyLength)) =>
              gOutcome.value.body = C18_DraftBody

\* a draft body of 201 characters against a limit of 200: the cut falls on a
\* space, which is trimmed before the ellipsis is added
C18_Witness ==
  /\ gPc = "settled"
  /\ gDraftInput.context.maxBodyLength = 200
  /\ StrLength(C18_DraftBody) = 201
  /\ StrLength(gOutcome.value.body) = 199
  /\ <<gOutcome.value.body[199]>> = ELLIPSIS

\* whether the draft carries a boolean isPromptAligned
C19_DraftSetsAligned ==
  /\ gDraft \notin {none, Null, draftCopyThrew}
  /\ gDraft.isPromptAligned \in {"true", "false"}

\* C19: draftCopy receives the normalized prompt: none when topic and
\* instructions are both blank or the prompt is absent, and then the
\* suggestion has no prompt and isPromptAligned false unless the draft sets
\* it; "Additional Topic" as topic when only the topic is blank; topic and
\* instructions trimmed otherwise.  The suggestion echoes the same prompt.
C19_PromptNormalized ==
  gPc # "start" =>
    /\ IF ~C17_HasPrompt THEN gDraftInput.prompt = none
       ELSE /\ gDraftInput.prompt # none
            /\ gDraftInput.prompt.topic = IF C17_Topic = EmptyStr THEN <<"Additional Topic">>
                                          ELSE C17_Topic
            /\ gDraftInput.prompt.instructions = IF C17_Instructions = EmptyStr THEN undefined
                                                 ELSE C17_Instructions
    /\ gPc = "settled" =>
         /\ gOutcome.value.prompt = gDraftInput.prompt
         /\ (~C17_HasPrompt /\ ~C19_DraftSetsAligned) =>
              gOutcome.value.isPromptAligned = FALSE

\* a blank topic with instructions: the drafted suggestion echoes
\* "Additional Topic"
C19_Witness ==
  /\ gPc = "settled"
  /\ gDraft = DraftBase
  /\ gPrompt # none
  /\ C17_Topic = EmptyStr
  /\ C17_Instructions # EmptyStr
  /\ gOutcome.value.prompt.topic = <<"Additional Topic">>

\* a prompt whose topic and instructions are both blank
C19_WitnessBlank ==
  /\ gPc = "settled"
  /\ gPrompt # none
  /\ ~C17_HasPrompt
  /\ gOutcome.value.prompt = none
  /\ gOutcome.value.isPromptAligned = FALSE

(***************************************************************************)
(* The assembler's freeform fallback against the drafter's (under Spec)    *)
(***************************************************************************)
\* the drafter's own fallback for the request prompt, with default options
C20_DrafterFallback ==
  buildFallbackSuggestion(normalizePrompt(request.freeformTopicPrompt), DEFAULT_TONE_GUIDANCE)

\* the response carries the assembler's fallback: no generator was supplied
\* or generateFreeformTopic rejected
C20_FallbackUsed == outcome.status = "resolved" /\ freeformCall.state # "resolved"

\* C20: for every request prompt the assembler's fallback freeform topic has
\* the same title, body, echoed prompt, isPromptAligned and toneGuidance as
\* the drafter's own fallback for that prompt.
C20_FallbackMatchesDrafter ==
  C20_FallbackUsed =>
    /\ outcome.response.sections.freeformTopic.title = C20_DrafterFallback.title
    /\ outcome.response.sections.freeformTopic.body = C20_DrafterFallback.body
    /\ outcome.response.sections.freeformTopic.prompt = C20_DrafterFallback.prompt
    /\ outcome.response.sections.freeformTopic.isPromptAligned = C20_DrafterFallback.isPromptAligned
    /\ outcome.response.sections.freeformTopic.toneGuidance = C20_DrafterFallback.toneGuidance

\* what the code does: title, isPromptAligned and toneGuidance agree; the
\* body and the echoed prompt agree when the prompt has no instructions
C20_FallbackMatchesWithoutInstructions ==
  C20_FallbackUsed =>
    /\ outcome.response.sections.freeformTopic.title = C20_DrafterFallback.title
    /\ outcome.response.sections.freeformTopic.isPromptAligned = C20_DrafterFallback.isPromptAligned
    /\ outcome.response.sections.freeformTopic.toneGuidance = C20_DrafterFallback.toneGuidance
    /\ (C20_DrafterFallback.prompt = none \/ C20_DrafterFallback.prompt.instructions = undefined) =>
         /\ outcome.response.sections.freeformTopic.body = C20_DrafterFallback.body
         /\ outcome.response.sections.freeformTopic.prompt = C20_DrafterFallback.prompt

(***************************************************************************)
(* Action items from the extractor to the rendered section: the            *)
(* synthesizer drops blank entries before the assembler renders the list.  *)
(***************************************************************************)
C21_Items == Arr(<<ActionBlankSummary, ActionNoId>>)

C21_Bullets(body) == Len(SelectSeq(body, LAMBDA t : t = "\\u2022 "))

C21_Rendered == buildActionItemsSection(yOutcome.result.actionItems, FALSE, 1)

\* C21: for the extracted action items [{summary: "  "}, {summary: "Ship release",
\* owner: "Sam"}] the rendered Action Items body holds exactly one bullet,
\* the line for "Ship release" with its owner "Sam".
C21_ExactlyOneBullet ==
  (yOutcome.status = "resolved" /\ yActionItems = C21_Items)
    => /\ C21_Bullets(C21_Rendered.body) = 1
       /\ C21_Rendered.body = <<"\\u2022 ", "Ship release">> \o EM_DASH \o <<"Owner: ", "Sam">>

C21_Witness ==
  /\ yOutcome.status = "resolved"
  /\ yActionItems = C21_Items
  /\ Len(yOutcome.result.actionItems) = 1

(***************************************************************************)
(* The Action Items section of a response, read back from its body         *)
(***************************************************************************)
C22_BulletPositions(body) == {p \in 1..Len(body) : body[p] = "\\u2022 "}

\* the text of the n-th bullet of the body, without the bullet mark
C22_Line(body, n) ==
  LET ps == C22_BulletPositions(body)
      start == CHOOSE p \in ps : Cardinality({q \in ps : q <= p}) = n
      later == {q \in ps : q > start}
      stop == IF later = {} THEN Len(body)
              ELSE (CHOOSE q \in later : \A r \in later : q <= r) - 2
  IN SubSeq(body, start + 1, stop)

C22_Has(line, token) == \E p \in 1..Len(line) : line[p] = token

C22_StartsWith(line, prefix) ==
  Len(line) >= Len(prefix) /\ SubSeq(line, 1, Len(prefix)) = prefix

C22_Placeholder ==
  <<"No action items were captured for this update. Check in with the team to confirm next steps.">>

\* blank(s) says which owners and due dates count as blank
C22_ItemsKept(blank(_)) ==
  outcome.status = "resolved" =>
    LET input == synthCall.value.actionItems
        section == outcome.response.sections.actionItems
    IN /\ Len(section.items) = Len(input)
       /\ (section.body = C22_Placeholder) <=> (Len(input) = 0)
       /\ Len(input) > 0 => Cardinality(C22_BulletPositions(section.body)) = Len(input)
       /\ Len(input) > 0 =>
            \A n \in 1..Len(input) :
              LET line == C22_Line(section.body, n)
              IN /\ section.items[n].id = input[n].id
                 /\ C22_StartsWith(line, IF Truthy(OptTrim(input[n].summary))
                                            THEN OptTrim(input[n].summary)
                                            ELSE <<"Follow up item ">> \o NumStr(n))
                 /\ blank(input[n].owner) => ~C22_Has(line, "Owner: ")
                 /\ blank(input[n].dueDate) => ~C22_Has(line, "Due: ")

C22_BlankAfterTrim(s) == ~Truthy(OptTrim(s))

C22_Empty(s) == ~Truthy(s)

\* C22: the Action Items section keeps every action item of the synthesis
\* result in order, renders one bullet per item, renders a summary that is blank
\* after trimming as "Follow up item <n>", adds no "Owner:" or "Due:" detail for
\* a blank owner or due date, and holds the "no action items" placeholder exactly
\* when the list is empty.
C22_ActionItemsKept == C22_ItemsKept(C22_BlankAfterTrim)

\* the same rule with only an undefined or empty owner and due date as blank
C22_ActionItemsKeptWhenEmpty == C22_ItemsKept(C22_Empty)

(***************************************************************************)
(* Warnings of a response                                                  *)
(***************************************************************************)
\* the warnings a settled summarizeAudio call delivered; a skipped or rejected
\* call delivered none
C23_AudioWarnings ==
  IF audioCall.state = "resolved" /\ audioCall.value.warnings.defined
    THEN audioCall.value.warnings.items ELSE <<>>

C23_SynthesisWarnings ==
  IF synthCall.value.metadata.warnings.defined
    THEN synthCall.value.metadata.warnings.items ELSE <<>>

\* C23: the warnings of a response are the audio summary's warnings in order
\* followed by the synthesis metadata's warnings in order; the field is undefined
\* exactly when both are absent or empty; a failed audio summarization adds none.
C23_WarningsAudioThenSynthesis ==
  outcome.status = "resolved" =>
    LET expected == C23_AudioWarnings \o C23_SynthesisWarnings
        warnings == outcome.response.warnings
    IN /\ warnings.defined <=> Len(expected) > 0
       /\ warnings.defined => warnings.items = expected
       /\ audioCall.state = "rejected" =>
            warnings = (IF Len(C23_SynthesisWarnings) > 0
                          THEN Arr(C23_SynthesisWarnings) ELSE UndefinedArray)

C23_Witness ==
  /\ outcome.status = "resolved"
  /\ Len(C23_AudioWarnings) = 2
  /\ Len(C23_SynthesisWarnings) = 1
  /\ Len(outcome.response.warnings.items) = 3

\* both sources present but empty or absent: the field is undefined
C23_WitnessUndefined ==
  /\ outcome.status = "resolved"
  /\ audioCall.state = "resolved"
  /\ audioCall.value.warnings = Arr(<<>>)
  /\ outcome.response.warnings = UndefinedArray

(***************************************************************************)
(* Timestamps of a response                                                *)
(***************************************************************************)
C24_Count(name) == Cardinality({i \in 1..Len(callLog) : callLog[i] = name})

\* C24: processingTimeMs of a response is the end timestamp minus the start
\* timestamp; the start is read before audio summarization and synthesis are
\* started, the end after freeform drafting and section rendering; the clock is
\* read exactly twice and now exactly once in a call that returns a response.
C24_ProcessingTimeIsEndMinusStart ==
  outcome.status = "resolved" =>
    /\ outcome.response.metadata.processingTimeMs = clock - startedAt
    /\ callLog[1] = "Date.now"
    /\ callLog[Len(callLog)] = "Date.now"
    /\ callLog[Len(callLog) - 1] = "now"
    /\ C24_Count("Date.now") = 2
    /\ C24_Count("now") = 1
    /\ \A i \in 2..(Len(callLog) - 2) : callLog[i] \notin {"Date.now", "now"}

C24_Witness ==
  /\ outcome.status = "resolved"
  /\ startedAt = 1
  /\ outcome.response.metadata.processingTimeMs = 1
  /\ C24_Count("generateFreeformTopic") = 1
  /\ C24_Count("generateId") > 0

(***************************************************************************)
(* The two concurrent branches of assembleNewsletter                       *)
(***************************************************************************)
\* both branches are started by the time either has settled
C25_BothStarted ==
  pc # "start" =>
    /\ C24_Count("synthesizeContent") = 1
    /\ audioCall.state # "skipped" => C24_Count("summarizeAudio") = 1

\* C25: the outcome does not depend on which branch settles first: both are
\* started before either is awaited, and for the same dependency results every
\* order of settlement gives the same sections, warnings and
\* audioSummaryIncluded, or the same rejection.
C25_OutcomeIndependentOfSettleOrder ==
  /\ C25_BothStarted
  /\ pc = "settled" =>
       /\ (outcome.status = "rejected") <=> (synthCall.state = "rejected")
       /\ (outcome.status = "resolved") <=> (synthCall.state = "resolved")
  /\ outcome.status = "rejected" => outcome.error = synthCall.value
  /\ outcome.status = "resolved" =>
       /\ AudioBranchSettled
       /\ outcome.response.metadata.audioSummaryIncluded = (audioCall.state = "resolved")
       /\ outcome.response.sections
            = buildStructuredNewsletter(request, audioSummary, synthCall.value,
                                        dependencies.generateId, freeformSuggestion)
       /\ outcome.response.warnings
            = (IF Len(C23_AudioWarnings \o C23_SynthesisWarnings) > 0
                 THEN Arr(C23_AudioWarnings \o C23_SynthesisWarnings) ELSE UndefinedArray)

C25_WitnessSynthesisFirst ==
  /\ outcome.status = "resolved"
  /\ settleLog = <<"synthesizeContent", "summarizeAudio">>
  /\ audioCall.state = "resolved"
  /\ outcome.response.metadata.audioSummaryIncluded

C25_WitnessAudioFirst ==
  /\ outcome.status = "resolved"
  /\ settleLog = <<"summarizeAudio", "synthesizeContent">>
  /\ audioCall.state = "resolved"
  /\ outcome.response.metadata.audioSummaryIncluded

(***************************************************************************)
(* The optional audio stage of assembleNewsletter                          *)
(***************************************************************************)
\* text that only an audio summary contributes to a section
C26_AudioTokens ==
  {"Audio callouts:", "Timestamp: ", "Note: ", "Progress discussed", "Launch date",
   "Audio truncated", "Low audio quality"}

C26_Bodies(sections) ==
  <<sections.introduction.body>>
  \o [i \in 1..Len(sections.mainUpdates) |-> sections.mainUpdates[i].body]
  \o <<sections.actionItems.body, sections.closing.body, sections.freeformTopic.body>>

C26_NoAudioContent(sections) ==
  /\ \A i \in 1..Len(C26_Bodies(sections)) :
       \A p \in 1..Len(C26_Bodies(sections)[i]) :
         C26_Bodies(sections)[i][p] \notin C26_AudioTokens
  /\ \A i \in 1..Len(sections.mainUpdates) :
       "highlights" \in DOMAIN sections.mainUpdates[i]
         => sections.mainUpdates[i].highlights = UndefinedArray

\* C26: summarizeAudio is invoked exactly when the request carries an audio
\* descriptor and the dependency is supplied, at most once; audioSummaryIncluded
\* is true exactly when it was invoked and resolved; when it is skipped or fails
\* no audio highlight or audio warning appears in any section.
C26_AudioStageOptional ==
  /\ pc # "start" =>
       C24_Count("summarizeAudio")
         = (IF request.audio # none /\ dependencies.summarizeAudio THEN 1 ELSE 0)
  /\ outcome.status = "resolved" =>
       /\ outcome.response.metadata.audioSummaryIncluded
            = (C24_Count("summarizeAudio") = 1 /\ audioCall.state = "resolved")
       /\ audioCall.state \in {"skipped", "rejected"}
            => C26_NoAudioContent(outcome.response.sections)

C26_Witness ==
  /\ outcome.status = "resolved"
  /\ audioCall.state = "rejected"
  /\ ~outcome.response.metadata.audioSummaryIncluded
  /\ C24_Count("summarizeAudio") = 1

C26_WitnessSkipped ==
  /\ outcome.status = "resolved"
  /\ audioCall.state = "skipped"
  /\ dependencies.summarizeAudio
  /\ request.audio = none

C26_WitnessIncluded ==
  /\ outcome.status = "resolved"
  /\ outcome.response.metadata.audioSummaryIncluded
  /\ ~C26_NoAudioContent(outcome.response.sections)

(***************************************************************************)
(* The mainUpdates sections of a response                                  *)
(***************************************************************************)
C27_Titles(mainUpdates) == [i \in 1..Len(mainUpdates) |-> mainUpdates[i].title]

C27_HasDecisions == Len(synthCall.value.decisions) > 0

C27_HasInsightsOrHighlights ==
  \/ Len(synthCall.value.insights) > 0
  \/ audioCall.state = "resolved" /\ Len(audioCall.value.highlights) > 0

\* C27: mainUpdates holds one or two sections: "Key Decisions" exactly when the
\* decisions list is non-empty, "Highlights & Insights" exactly when there is an
\* insight or an audio highlight, decisions first when both exist, and the single
\* "Main Updates" placeholder exactly when neither exists.
C27_MainUpdatesSections ==
  outcome.status = "resolved" =>
    LET titles == C27_Titles(outcome.response.sections.mainUpdates)
    IN /\ Len(titles) \in {1, 2}
       /\ titles = (IF C27_HasDecisions THEN <<(<<"Key Decisions">>)>> ELSE <<>>)
                   \o (IF C27_HasInsightsOrHighlights
                         THEN <<(<<"Highlights & Insights">>)>> ELSE <<>>)
                   \o (IF ~C27_HasDecisions /\ ~C27_HasInsightsOrHighlights
                         THEN <<(<<"Main Updates">>)>> ELSE <<>>)

C27_Witness ==
  /\ outcome.status = "resolved"
  /\ C27_HasDecisions
  /\ Len(synthCall.value.insights) = 0
  /\ audioCall.state = "resolved" /\ Len(audioCall.value.highlights) > 0
  /\ Len(outcome.response.sections.mainUpdates) = 2

C27_WitnessPlaceholder ==
  /\ outcome.status = "resolved"
  /\ ~C27_HasDecisions /\ ~C27_HasInsightsOrHighlights
  /\ audioCall.state = "resolved"
  /\ Len(outcome.response.sections.mainUpdates) = 1

(***************************************************************************)
(* The Closing section of a response                                       *)
(***************************************************************************)
C28_Reminder(count) ==
  <<"Please review the ">> \o NumStr(count)
    \o <<" action item(s) listed above and confirm ownership.">>

C28_ThankYou ==
  <<"Thank you for staying aligned. Reach out if any clarifications are needed before the next check-in.">>

C28_Fallback == <<"Thanks for reading and keep up the great work!">>

\* the paragraphs of a body, which are separated by a blank line
C28_Paragraphs(body) ==
  LET breaks == {p \in 1..Len(body) : body[p] = "\n\n"}
      starts == {1} \cup {p + 1 : p \in breaks}
      Nth(n) == CHOOSE p \in starts : Cardinality({q \in starts : q <= p}) = n
      End(p) == IF \E q \in breaks : q > p
                  THEN (CHOOSE q \in breaks : q > p /\ \A r \in breaks : r > p => q <= r) - 1
                  ELSE Len(body)
  IN [n \in 1..Cardinality(starts) |-> SubSeq(body, Nth(n), End(Nth(n)))]

\* C28: the Closing body is never empty; it holds the action-item reminder
\* exactly when the Action Items section has at least one item, naming the count,
\* then one "Note:" line per audio-summary warning in order; with neither, it is
\* the thank-you sentence when the synthesized summary is non-empty and the
\* "Thanks for reading" fallback otherwise.
C28_ClosingBody ==
  outcome.status = "resolved" =>
    LET sections == outcome.response.sections
        count == Len(sections.actionItems.items)
        paragraphs == C28_Paragraphs(sections.closing.body)
        reminder == IF count > 0 THEN <<C28_Reminder(count)>> ELSE <<>>
        notes == [i \in 1..Len(C23_AudioWarnings) |-> <<"Note: ">> \o C23_AudioWarnings[i]]
    IN /\ sections.closing.body # EmptyStr
       /\ Len(reminder \o notes) > 0 => paragraphs = reminder \o notes
       /\ Len(reminder \o notes) = 0 =>
            sections.closing.body = (IF synthCall.value.summary # EmptyStr
                                       THEN C28_ThankYou ELSE C28_Fallback)

C28_Witness ==
  /\ outcome.status = "resolved"
  /\ Len(outcome.response.sections.actionItems.items) = 3
  /\ Len(C23_AudioWarnings) = 2
  /\ synthCall.value.summary # EmptyStr
  /\ Len(C28_Paragraphs(outcome.response.sections.closing.body)) = 3

C28_WitnessThankYou ==
  /\ outcome.status = "resolved"
  /\ outcome.response.sections.closing.body = C28_ThankYou

C28_WitnessFallback ==
  /\ outcome.status = "resolved"
  /\ outcome.response.sections.closing.body = C28_Fallback

(***************************************************************************)
(* Section ids of a response                                               *)
(***************************************************************************)
\* the ids of the sections that take one, in rendering order
C29_Ids(sections) ==
  <<sections.introduction.id>>
  \o [i \in 1..Len(sections.mainUpdates) |-> sections.mainUpdates[i].id]
  \o <<sections.actionItems.id, sections.closing.id>>

\* C29: without a generateId factory the ids of the introduction, the
\* mainUpdates sections, the action-items section and the closing section are
\* pairwise distinct; with a factory it is called exactly once per rendered
\* section, in the order introduction, main updates, action items, closing.
C29_SectionIds ==
  outcome.status = "resolved" =>
    LET ids == C29_Ids(outcome.response.sections)
    IN /\ ~dependencies.generateId =>
            /\ \A i, j \in 1..Len(ids) : i # j => ids[i] # ids[j]
            /\ C24_Count("generateId") = 0
       /\ dependencies.generateId =>
            /\ C24_Count("generateId") = Len(ids)
            /\ \A i \in 1..Len(ids) : ids[i] = <<"sec-">> \o NumStr(i)

C29_Witness ==
  /\ outcome.status = "resolved"
  /\ dependencies.generateId
  /\ Len(outcome.response.sections.mainUpdates) = 2
  /\ outcome.response.sections.closing.id = <<"sec-", "5">>

C29_WitnessLiteralIds ==
  /\ outcome.status = "resolved"
  /\ ~dependencies.generateId
  /\ Len(outcome.response.sections.mainUpdates) = 2
  /\ outcome.response.sections.closing.id = <<"closing">>

(***************************************************************************)
(* Uniqueness of the ids in a synthesized list                             *)
(***************************************************************************)
C30_Distinct(ids) == \A i, j \in 1..Len(ids) : i # j => ids[i] # ids[j]

C30_Ids(entries) == [i \in 1..Len(entries) |-> entries[i].id]

\* the non-empty ids the extractor supplied
C30_SuppliedIds(returned) ==
  SelectSeq(C30_Ids(returned.items), LAMBDA id : Truthy(id))

C30_ListIdsDistinct(returned, result) ==
  C30_Distinct(C30_SuppliedIds(returned)) => C30_Distinct(C30_Ids(result))

\* C30: within each returned list (decisions, action items, insights) the ids
\* are pairwise distinct whenever the non-empty ids the extractor supplied were
\* pairwise distinct: a positional fallback id never collides with a supplied id.
C30_FallbackIdsNeverCollide ==
  yOutcome.status = "resolved" =>
    /\ C30_ListIdsDistinct(yDecisions, yOutcome.result.decisions)
    /\ C30_ListIdsDistinct(yActionItems, yOutcome.result.actionItems)
    /\ C30_ListIdsDistinct(yInsights, yOutcome.result.insights)

\* the same for the decisions and action items alone, whose sample lists hold
\* no supplied id of the positional form
C30_DistinctWithoutPositionalIds ==
  yOutcome.status = "resolved" =>
    /\ C30_ListIdsDistinct(yDecisions, yOutcome.result.decisions)
    /\ C30_ListIdsDistinct(yActionItems, yOutcome.result.actionItems)

====
